---------------------------- MODULE Spec2Model ----------------------------
(***************************************************************************)
(* The ingestion engine of kafka_candle_ingestion: the MessageProcessor    *)
(* (buffer, flush by symbol group), the DatabaseManager (insert_batch,     *)
(* retry queue, upsert into candles) and the DatabaseCircuitBreaker.       *)
(*                                                                         *)
(* Time is a discrete clock `now` (one unit = one second); the awaits of   *)
(* the ingestion task are the points where the clock may advance.          *)
(***************************************************************************)
EXTENDS Integers, Sequences, FiniteSets, TLC

\* ------------------------------------------------------------------ bounds
MaxMsgs == 3        \* messages pulled from the source in one run
MaxTime == 4        \* last clock value explored
MaxBreakerTime == 7 \* last clock value explored with the breaker on its own
MaxRetryTime == 7   \* last clock value a retry sleep may end at
MaxGroups == 2      \* symbol groups of a flush of the running process
MaxLoopErrors == 2  \* errors the consumer loop handles in one run
MaxFlushLen == 2    \* records of a flush whose order against another is compared
MaxFlushes == 5     \* flushes made from the default configuration
MaxAnswers == 4     \* answers the sink has ready for one _execute_with_retry call
MaxBatchSize == 8   \* largest batch_size_max of the ordered configurations

\* ----------------------------------------------------------- configuration
\* The configuration is read from the environment (config/loader.py); the
\* values below are one valid configuration, scaled down so that the batch
\* size, the queue capacity and both timeouts are reached within the bounds.
\* config.circuit_breaker.reset_timeout, in clock units (default 60.0)
reset_timeout == 2
\* config.insert.time_interval, in clock units (default 5.0)
time_interval == 1
\* config.kafka.initial_max_batch_size (default 500)
initial_max_batch_size == 3
\* config.dynamic_polling.batch_size_min (default 100)
batch_size_min == 3
\* config.dynamic_polling.batch_size_max (default 2000)
batch_size_max == 4
\* config.dynamic_polling.latency_threshold_high / low, in milliseconds
latency_threshold_high == 1000
latency_threshold_low == 200
\* One second of poll timeout. The controller multiplies the timeout by 1.5
\* or 0.8 once per flush, and a flush needs a message: with this unit every
\* value the timeout can take within the bounds is a whole number.
PollScale == 10 ^ MaxMsgs
\* config.kafka.initial_poll_timeout and config.dynamic_polling.poll_timeout_min
\* / poll_timeout_max, in seconds (defaults 1.0, 0.5, 5.0)
initial_poll_timeout == 1
poll_timeout_min == 1
poll_timeout_max == 1
\* DatabaseManager.max_retry_queue_size (10000 in the source, scaled down)
max_retry_queue_size == 2
\* DatabaseManager._execute_with_retry: max_retries
max_retries == 3
base_delay == 100   \* milliseconds
\* config.insert (loader.py)
retry_attempts == 3
retry_delay == 1

\* ------------------------------------------------------------------ inputs
\* Candle payloads a valid message can carry (MarketDataPoint after
\* model_dump: upper-cased symbol, parsed start_time, non-negative floats).
Candles ==
  { [symbol |-> "A", start_time |-> 1, open_price |-> 100, high_price |-> 110,
     low_price |-> 95, close_price |-> 105, volume |-> 5],
    [symbol |-> "A", start_time |-> 1, open_price |-> 106, high_price |-> 108,
     low_price |-> 90, close_price |-> 103, volume |-> 7],
    [symbol |-> "B", start_time |-> 1, open_price |-> 100, high_price |-> 110,
     low_price |-> 95, close_price |-> 105, volume |-> 5] }

Symbols == {c.symbol : c \in Candles}
Keys == {<<c.start_time, c.symbol>> : c \in Candles}

\* MarketDataPoint.validate_symbol: v.upper()
Upper(text) ==
  CASE text = "a" -> "A"
    [] text = "b" -> "B"
    [] OTHER -> text

\* Message values as they come from the source. body tells what json.loads
\* makes of the bytes: an object, another JSON value (array, string, number,
\* null) or nothing (not JSON). For an object the other fields give what it
\* holds: symbol with its length, whether the timestamps parse, the numbers.
RawMessages ==
  LET raw(b, text, n, t, c, v) ==
        [body |-> b, symbol |-> text, symbol_len |-> n, time_ok |-> t,
         start_time |-> c.start_time, open_price |-> c.open_price,
         high_price |-> c.high_price, low_price |-> c.low_price,
         close_price |-> c.close_price, volume |-> v]
      one == CHOOSE c \in Candles : c.symbol = "B"
  IN  {raw("object", c.symbol, 1, TRUE, c, c.volume) : c \in Candles}
        \cup {raw("object", "a", 1, TRUE, c, c.volume) :
                 c \in {d \in Candles : d.symbol = "A"}}
        \cup { raw("object", "b", 1, TRUE, one, one.volume),
               raw("object", "B", 1, TRUE, one, -1),
               raw("object", "", 0, TRUE, one, one.volume),
               raw("object", "BBBBBBBBBBBBBBBBBBBBB", 21, TRUE, one, one.volume),
               raw("object", "B", 1, FALSE, one, one.volume),
               raw("array", "", 0, FALSE, one, 0),
               raw("garbage", "", 0, FALSE, one, 0) }

\* parse_message: json.loads, then MarketDataPoint(**data).model_dump().
\* "type_error" is the TypeError of `**data` for a JSON value that is not
\* an object, which parse_message does not catch.
ParseMessage(raw) ==
  IF raw.body = "garbage" THEN [outcome |-> "json_decode_error", data |-> raw]
  ELSE IF raw.body # "object" THEN [outcome |-> "type_error", data |-> raw]
  ELSE IF \/ ~raw.time_ok
          \/ raw.open_price < 0 \/ raw.high_price < 0 \/ raw.low_price < 0
          \/ raw.close_price < 0 \/ raw.volume < 0
          \/ raw.symbol_len = 0 \/ raw.symbol_len > 20
       THEN [outcome |-> "validation_error", data |-> raw]
       ELSE [outcome |-> "ok",
             data |-> [symbol |-> Upper(raw.symbol),
                       start_time |-> raw.start_time,
                       open_price |-> raw.open_price,
                       high_price |-> raw.high_price,
                       low_price |-> raw.low_price,
                       close_price |-> raw.close_price,
                       volume |-> raw.volume]]

\* What the sink answers to the successive executemany attempts of one
\* _insert_records call; <<"noconn">> is pool.acquire() failing.
SinkScripts ==
  { <<"ok">>, <<"deadlock", "ok">>, <<"deadlock", "deadlock", "deadlock">>,
    <<"unique">>, <<"error">>, <<"noconn">> }

\* Flush latencies observed by _flush_buffer, in milliseconds.
Latencies == {100, 500, 1500}

\* Flush latencies equal to latency_threshold_low and latency_threshold_high.
ThresholdLatencies == {latency_threshold_low, latency_threshold_high}

\* Values of config.circuit_breaker.failure_threshold explored.
Thresholds == {1, 2}

\* The configuration the pipeline runs with.
PipelineConfig ==
  [initial_poll_timeout |-> initial_poll_timeout * PollScale,
   initial_max_batch_size |-> initial_max_batch_size,
   latency_threshold_high |-> latency_threshold_high,
   latency_threshold_low |-> latency_threshold_low,
   poll_timeout_min |-> poll_timeout_min * PollScale,
   poll_timeout_max |-> poll_timeout_max * PollScale,
   batch_size_min |-> batch_size_min,
   batch_size_max |-> batch_size_max]

\* Configurations as the environment can give them.
RawConfigs ==
  [initial_poll_timeout : {0, 2 * PollScale, 5 * PollScale},
   initial_max_batch_size : {1, 3, 5},
   latency_threshold_high : {latency_threshold_high},
   latency_threshold_low : {latency_threshold_low},
   poll_timeout_min : {1 * PollScale},
   poll_timeout_max : {4 * PollScale},
   batch_size_min : {0, 2},
   batch_size_max : {4}]

\* validate_config, for the values the processor uses.
ValidateConfig(c) == c.initial_poll_timeout > 0

Configs == {c \in RawConfigs : ValidateConfig(c)}

VARIABLES
  now,                   \* time.time()
  failure_threshold,     \* config.circuit_breaker.failure_threshold
  state,                 \* DatabaseCircuitBreaker.state
  failures,              \* DatabaseCircuitBreaker.failures
  last_failure_time,     \* DatabaseCircuitBreaker.last_failure_time
  last_success_time,     \* DatabaseCircuitBreaker.last_success_time
  circuit_breaker_trips, \* metric circuit_breaker_trips
  db_insert_errors,      \* metric db_insert_errors (all labels)
  retry_queue,           \* DatabaseManager.retry_queue
  sink,                  \* the candles table: key -> row or NoRow
  total_dropped,         \* DatabaseManager.batch_stats['total_dropped']
  records_buffer,        \* MessageProcessor.records_buffer
  current_batch_size,    \* metric current_batch_size (gauge)
  last_flush_time,       \* MessageProcessor.last_flush_time
  current_max_batch_size,\* MessageProcessor.current_max_batch_size
  messages_inserted,     \* metric messages_inserted{symbol}
  invalid_messages,      \* metric invalid_messages (all reasons)
  pc,                    \* position of the ingestion task
  pending,               \* symbol groups of the running flush not yet handed over
  next_offset,           \* offset of the next message of the partition
  config,                \* config.kafka initial values and config.dynamic_polling
  current_poll_timeout,  \* MessageProcessor.current_poll_timeout
  insert_latency,        \* _flush_buffer: latency measured by the latest flush
  retries,               \* _handle_insert_failure calls waiting on a nested flush
  main_pc,               \* position of main(), from the import of the config on
  running,               \* KafkaTimescaleIngestion.running
  consumer,              \* KafkaTimescaleIngestion.consumer
  db_pool,               \* KafkaTimescaleIngestion.db_pool
  shutdown_task,         \* the shutdown() task created by the signal handler
  exit_code,             \* exit status of the process
  groups_left,           \* running process: groups the flush has yet to insert
  inserting,             \* running process: an insert holds a pool connection
  flush_pair,            \* two buffers to be flushed in either order
  sink_swapped,          \* the candles table when the second buffer goes first
  queue_swapped,         \* retry_queue when the second buffer goes first
  commute_step,          \* flushes of the pair done so far
  sink_script,           \* answers of the sink to one _execute_with_retry call
  retry_result,          \* what that _execute_with_retry call came to
  \* history variables (not program state)
  sink_log,              \* rows committed to the sink, in commit order
  counted,               \* offsets of records covered by an error-counter increment
  handed,                \* lists handed to insert_batch by the running flush
  consecutive,           \* failed execute calls since the last successful one
  last_exec,             \* how the latest execute call ended
  latency_log,           \* latencies of the flushes made from the defaults
  startup_result,        \* how startup() ended
  loop_errors,           \* exceptions handled by the consumer loop
  flush_at_signal        \* the flush in flight when the signal arrived goes on

vars == <<now, failure_threshold, state, failures, last_failure_time,
          last_success_time, circuit_breaker_trips, db_insert_errors,
          retry_queue, sink, total_dropped, records_buffer, current_batch_size,
          last_flush_time,
          current_max_batch_size, messages_inserted, invalid_messages, pc,
          pending, next_offset, config, current_poll_timeout, insert_latency,
          retries, main_pc, running, consumer, db_pool, shutdown_task,
          exit_code, groups_left, inserting, flush_pair, sink_swapped,
          queue_swapped, commute_step, sink_script, retry_result, sink_log,
          counted, handed,
          consecutive, last_exec, latency_log, startup_result, loop_errors,
          flush_at_signal>>

breaker_vars == <<state, failures, last_failure_time, last_success_time,
                  circuit_breaker_trips>>
writer_vars == <<retry_queue, sink, db_insert_errors, total_dropped>>
processor_vars == <<records_buffer, current_batch_size, last_flush_time,
                    current_max_batch_size,
                    messages_inserted, invalid_messages>>
controller_vars == <<config, current_poll_timeout, insert_latency, latency_log>>
history_vars == <<sink_log, counted, handed, consecutive, last_exec>>
failure_path_vars == <<retries>>
commute_vars == <<flush_pair, sink_swapped, queue_swapped, commute_step>>
upsert_vars == <<sink_script, retry_result>>
lifecycle_vars == <<main_pc, running, consumer, db_pool, shutdown_task,
                    exit_code, groups_left, inserting, startup_result,
                    loop_errors, flush_at_signal>>

NoRow == [absent |-> TRUE]

\* --------------------------------------------------------------- the sink
Max(a, b) == IF a >= b THEN a ELSE b
Min(a, b) == IF a <= b THEN a ELSE b

\* The tuple _insert_records builds for one record.
RowOf(r) ==
  [time |-> r.start_time, symbol |-> r.symbol, open |-> r.open_price,
   high |-> r.high_price, low |-> r.low_price, close |-> r.close_price,
   volume |-> r.volume]

\* Mutant of Upsert: every column is overwritten by the incoming row.
Upsert_Overwrite(tbl, v) ==
  [tbl EXCEPT ![<<v.time, v.symbol>>] =
     [open |-> v.open, high |-> v.high, low |-> v.low, close |-> v.close,
      volume |-> v.volume]]

\* Mutant of Upsert: the conflict target is the time column alone.
Upsert_KeyedByTime(tbl, v) ==
  LET old == tbl[<<v.time, v.symbol>>]
      new == IF old = NoRow
             THEN [open |-> v.open, high |-> v.high, low |-> v.low,
                   close |-> v.close, volume |-> v.volume]
             ELSE [open |-> v.open, high |-> Max(old.high, v.high),
                   low |-> Min(old.low, v.low), close |-> v.close,
                   volume |-> v.volume]
  IN  [k \in DOMAIN tbl |-> IF k[1] = v.time THEN new ELSE tbl[k]]

\* INSERT ... ON CONFLICT (time, symbol) DO UPDATE SET ... for one row.
Upsert(tbl, v) ==
  LET k == <<v.time, v.symbol>>
      old == tbl[k]
  IN  [tbl EXCEPT ![k] =
         IF old = NoRow
         THEN [open |-> v.open, high |-> v.high, low |-> v.low,
               close |-> v.close, volume |-> v.volume]
         ELSE [open |-> v.open, high |-> Max(old.high, v.high),
               low |-> Min(old.low, v.low), close |-> v.close,
               volume |-> v.volume]]

\* Mutant of ExecuteMany: the tuples are applied last to first.
RECURSIVE ExecuteMany_Reversed(_, _)
ExecuteMany_Reversed(tbl, records) ==
  IF records = <<>> THEN [table |-> tbl, applied |-> <<>>]
  ELSE LET n == Len(records)
           rest == ExecuteMany_Reversed(Upsert(tbl, RowOf(records[n])),
                                        SubSeq(records, 1, n - 1))
       IN  [table |-> rest.table, applied |-> <<records[n]>> \o rest.applied]

\* conn.executemany(query, values): the statement once per tuple, in the
\* order of `records`; `applied` lists the records in the order their rows
\* were upserted.
RECURSIVE ExecuteMany(_, _)
ExecuteMany(tbl, records) ==
  IF records = <<>> THEN [table |-> tbl, applied |-> <<>>]
  ELSE LET rest == ExecuteMany(Upsert(tbl, RowOf(Head(records))), Tail(records))
       IN  [table |-> rest.table, applied |-> <<Head(records)>> \o rest.applied]

\* Mutant of ExecuteWithRetry: a deadlock is surfaced at once.
ExecuteWithRetry_NoRetry(script, attempt) ==
  [outcome |-> IF attempt + 1 <= Len(script) THEN script[attempt + 1] ELSE "ok",
   attempts |-> attempt + 1, slept |-> <<>>]

\* _execute_with_retry from attempt `attempt` on: "ok" (executemany returned),
\* "unique" (UniqueViolationError swallowed, returns None), "deadlock"
\* (DeadlockDetectedError re-raised on the last attempt), "error" (any other
\* error, raised as DatabaseError); the attempts made and the sleeps between
\* them, in milliseconds.
RECURSIVE ExecuteWithRetry(_, _)
ExecuteWithRetry(script, attempt) ==
  LET answer == IF attempt + 1 <= Len(script) THEN script[attempt + 1] ELSE "ok"
  IN  IF answer = "deadlock"
      THEN IF attempt = max_retries - 1
           THEN [outcome |-> "deadlock", attempts |-> attempt + 1,
                 slept |-> <<>>]
           ELSE LET rest == ExecuteWithRetry(script, attempt + 1)
                IN  [rest EXCEPT !.slept = <<base_delay * (2 ^ attempt)>> \o @]
      ELSE [outcome |-> answer, attempts |-> attempt + 1, slept |-> <<>>]

Offsets(records) == {records[i].offset : i \in 1..Len(records)}

\* _insert_records(records) against table tbl with the sink answering by
\* `script`: whether it returned normally, the table afterwards, the rows
\* committed, the increment of db_insert_errors, and the records covered by
\* an error counter (db_insert_errors in _execute_with_retry, or
\* db_connection_errors when _insert_records raises).
InsertRecords(tbl, records, script) ==
  IF script = <<"noconn">>
  THEN [ok |-> FALSE, table |-> tbl, written |-> <<>>, insert_errors |-> 0,
        counted |-> Offsets(records)]
  ELSE
    LET r == ExecuteWithRetry(script, 0)
        done == ExecuteMany(tbl, records)
    IN  CASE r.outcome = "ok" ->
               [ok |-> TRUE, table |-> done.table, written |-> done.applied,
                insert_errors |-> 0, counted |-> {}]
          [] r.outcome = "unique" ->
               [ok |-> TRUE, table |-> tbl, written |-> <<>>,
                insert_errors |-> 1, counted |-> Offsets(records)]
          [] r.outcome = "deadlock" ->
               [ok |-> FALSE, table |-> tbl, written |-> <<>>,
                insert_errors |-> 0,
                counted |-> Offsets(records)]
          [] OTHER ->
               [ok |-> FALSE, table |-> tbl, written |-> <<>>,
                insert_errors |-> 1,
                counted |-> Offsets(records)]

\* Mutant of DoInsert: the queue is cleared before its records are written.
DoInsert_ClearsBeforeWrite(tbl, queue, records, s1, s2) ==
  LET q == IF queue # <<>>
           THEN InsertRecords(tbl, queue, s1)
           ELSE [ok |-> TRUE, table |-> tbl, written |-> <<>>,
                 insert_errors |-> 0,
                 counted |-> {}]
  IN  IF ~q.ok
      THEN [ok |-> FALSE, table |-> q.table, queue |-> <<>>,
            written |-> q.written, insert_errors |-> q.insert_errors,
            counted |-> q.counted]
      ELSE
        LET n == InsertRecords(q.table, records, s2)
        IN  [ok |-> n.ok, table |-> n.table, queue |-> <<>>,
             written |-> q.written \o n.written,
             insert_errors |-> q.insert_errors + n.insert_errors,
             counted |-> q.counted \cup n.counted]

\* Mutant of DoInsert: a failed write leaves the given records queued.
DoInsert_QueuesOnFailure(tbl, queue, records, s1, s2) ==
  LET q == IF queue # <<>>
           THEN InsertRecords(tbl, queue, s1)
           ELSE [ok |-> TRUE, table |-> tbl, written |-> <<>>,
                 insert_errors |-> 0,
                 counted |-> {}]
  IN  IF ~q.ok
      THEN [ok |-> FALSE, table |-> q.table, queue |-> queue \o records,
            written |-> q.written, insert_errors |-> q.insert_errors,
            counted |-> q.counted]
      ELSE
        LET n == InsertRecords(q.table, records, s2)
        IN  [ok |-> n.ok, table |-> n.table,
             queue |-> IF n.ok THEN <<>> ELSE records,
             written |-> q.written \o n.written,
             insert_errors |-> q.insert_errors + n.insert_errors,
             counted |-> q.counted \cup n.counted]

\* Mutant of DoInsert: the queued records are written after the new ones.
DoInsert_QueueLast(tbl, queue, records, s1, s2) ==
  LET n == InsertRecords(tbl, records, s2)
  IN  IF ~n.ok
      THEN [ok |-> FALSE, table |-> n.table, queue |-> queue,
            written |-> n.written, insert_errors |-> n.insert_errors,
            counted |-> n.counted]
      ELSE
        LET q == IF queue # <<>>
                 THEN InsertRecords(n.table, queue, s1)
                 ELSE [ok |-> TRUE, table |-> n.table, written |-> <<>>,
                       insert_errors |-> 0, counted |-> {}]
        IN  [ok |-> q.ok, table |-> q.table,
             queue |-> IF q.ok THEN <<>> ELSE queue,
             written |-> n.written \o q.written,
             insert_errors |-> n.insert_errors + q.insert_errors,
             counted |-> n.counted \cup q.counted]

\* insert_batch._do_insert: the queued records first, in their own
\* transaction, then the queue is cleared, then the new records.
DoInsert(tbl, queue, records, s1, s2) ==
  LET q == IF queue # <<>>
           THEN InsertRecords(tbl, queue, s1)
           ELSE [ok |-> TRUE, table |-> tbl, written |-> <<>>,
                 insert_errors |-> 0,
                 counted |-> {}]
  IN  IF ~q.ok
      THEN [ok |-> FALSE, table |-> q.table, queue |-> queue,
            written |-> q.written, insert_errors |-> q.insert_errors,
            counted |-> q.counted]
      ELSE
        LET n == InsertRecords(q.table, records, s2)
        IN  [ok |-> n.ok, table |-> n.table, queue |-> <<>>,
             written |-> q.written \o n.written,
             insert_errors |-> q.insert_errors + n.insert_errors,
             counted |-> q.counted \cup n.counted]

\* Mutant of QueueFits: the capacity test is missing.
QueueFits_NoCap(queue, records) == TRUE

\* insert_batch after execute returned `result is None`: queue the records
\* if there is space.
QueueFits(queue, records) == Len(queue) + Len(records) <= max_retry_queue_size

QueueForRetry(queue, records) ==
  IF QueueFits(queue, records) THEN queue \o records ELSE queue

\* ------------------------------------------------------------ the breaker
\* Mutant of ShouldAttemptReset: the timeout must be exceeded, not reached.
ShouldAttemptReset_Strict(t, lft) == t - lft > reset_timeout

\* _should_attempt_reset
ShouldAttemptReset(t, lft) == t - lft >= reset_timeout

\* Mutant of ThresholdReached: trips one failure late.
ThresholdReached_Late(f, threshold) == f > threshold

\* _handle_failure: the threshold test
ThresholdReached(f, threshold) == f >= threshold

\* Mutant of HandleFailure: only a CLOSED breaker is opened.
HandleFailure_FromClosedOnly(st, f, threshold, t) ==
  LET f2 == f + 1
      trip == ThresholdReached(f2, threshold) /\ st = "closed"
  IN  [state |-> IF trip THEN "open" ELSE st, failures |-> f2,
       last_failure_time |-> t, tripped |-> trip]

\* _handle_failure at time t
HandleFailure(st, f, threshold, t) ==
  LET f2 == f + 1
      trip == ThresholdReached(f2, threshold) /\ st # "open"
  IN  [state |-> IF trip THEN "open" ELSE st, failures |-> f2,
       last_failure_time |-> t, tripped |-> trip]

\* Mutant of HandleSuccess: the failure count survives a success.
HandleSuccess_KeepsFailures(st, t) ==
  [state |-> IF st = "half_open" THEN "closed" ELSE st, failures |-> failures,
   last_success_time |-> t]

\* Mutant of HandleSuccess: a success in HALF_OPEN does not close the breaker.
HandleSuccess_StaysHalfOpen(st, t) ==
  [state |-> st, failures |-> 0, last_success_time |-> t]

\* _handle_success at time t
HandleSuccess(st, t) ==
  [state |-> IF st = "half_open" THEN "closed" ELSE st, failures |-> 0,
   last_success_time |-> t]

\* Mutant of ExecuteGate: the OPEN state does not fail fast.
ExecuteGate_NoFailFast(st, t, lft) ==
  IF st = "open" /\ t - lft >= reset_timeout
  THEN [verdict |-> "call", state |-> "half_open"]
  ELSE [verdict |-> "call", state |-> st]

\* execute, before the operation is awaited: "reject" raises
\* CircuitBreakerError, "call" goes on to the operation in state `state`.
ExecuteGate(st, t, lft) ==
  IF st = "open"
  THEN IF ShouldAttemptReset(t, lft)
       THEN [verdict |-> "call", state |-> "half_open"]
       ELSE [verdict |-> "reject", state |-> st]
  ELSE [verdict |-> "call", state |-> st]

\* ---------------------------------------------------------- the processor
\* Mutant of ShouldFlush: the time trigger needs the interval to be exceeded.
ShouldFlush_TimeLate(buf, maxsize, t, lastflush) ==
  \/ Len(buf) >= maxsize
  \/ t - lastflush > time_interval

\* Mutant of ShouldFlush: the size trigger fires one record late.
ShouldFlush_SizeLate(buf, maxsize, t, lastflush) ==
  \/ Len(buf) > maxsize
  \/ t - lastflush >= time_interval

\* _should_flush
ShouldFlush(buf, maxsize, t, lastflush) ==
  \/ Len(buf) >= maxsize
  \/ t - lastflush >= time_interval

RECURSIVE SymbolOrder(_, _)
\* keys of batched_records in insertion order (first appearance in the buffer)
SymbolOrder(buf, seen) ==
  IF buf = <<>> THEN <<>>
  ELSE IF Head(buf).symbol \in seen THEN SymbolOrder(Tail(buf), seen)
       ELSE <<Head(buf).symbol>> \o
            SymbolOrder(Tail(buf), seen \cup {Head(buf).symbol})

\* Mutant of SymbolRecords: each new record is put at the front of its list.
SymbolRecords_Prepend(buf, s) ==
  LET sel == SelectSeq(buf, LAMBDA r : r.symbol = s)
  IN  [i \in 1..Len(sel) |-> sel[Len(sel) + 1 - i]]

\* batched_records[symbol]
SymbolRecords(buf, s) == SelectSeq(buf, LAMBDA r : r.symbol = s)

\* batched_records.items(), as the sequence of the groups
BatchedRecords(buf) ==
  LET order == SymbolOrder(buf, {})
  IN  [i \in 1..Len(order) |-> SymbolRecords(buf, order[i])]

\* Mutant of IntOf: rounds to the nearest integer.
IntOf_Nearest(n, d) == (2 * n + d) \div (2 * d)

\* int(x) of a float given as the fraction n / d, d > 0: truncation toward 0.
IntOf(n, d) == IF n >= 0 THEN n \div d ELSE -((-n) \div d)

\* Mutant of AdaptPollingParameters: a latency equal to a threshold is
\* treated as beyond it.
AdaptPollingParameters_NoDeadZoneEdge(poll, size, latency, dyn_conf) ==
  IF latency >= dyn_conf.latency_threshold_high
  THEN [poll |-> Min((poll * 15) \div 10, dyn_conf.poll_timeout_max),
        size |-> Max(IntOf(size * 8, 10), dyn_conf.batch_size_min)]
  ELSE IF latency <= dyn_conf.latency_threshold_low
       THEN [poll |-> Max((poll * 8) \div 10, dyn_conf.poll_timeout_min),
             size |-> Min(IntOf(size * 12, 10), dyn_conf.batch_size_max)]
       ELSE [poll |-> poll, size |-> size]

\* _adapt_polling_parameters: the new poll timeout and max batch size
AdaptPollingParameters(poll, size, latency, dyn_conf) ==
  IF latency > dyn_conf.latency_threshold_high
  THEN [poll |-> Min((poll * 15) \div 10, dyn_conf.poll_timeout_max),
        size |-> Max(IntOf(size * 8, 10), dyn_conf.batch_size_min)]
  ELSE IF latency < dyn_conf.latency_threshold_low
       THEN [poll |-> Max((poll * 8) \div 10, dyn_conf.poll_timeout_min),
             size |-> Min(IntOf(size * 12, 10), dyn_conf.batch_size_max)]
       ELSE [poll |-> poll, size |-> size]

\* Mutant of FinallyBlock: the buffer is cleared only when it is full.
FinallyBlock_ClearsFullBuffer(buf, t) ==
  [records_buffer |-> IF Len(buf) >= initial_max_batch_size THEN <<>> ELSE buf,
   current_batch_size |-> 0, last_flush_time |-> t]

\* _flush_buffer: the finally block, run at time t
FinallyBlock(buf, t) ==
  [records_buffer |-> <<>>, current_batch_size |-> 0, last_flush_time |-> t]

\* ------------------------------------------------------------------- Init
\* The state after construction, for the configuration in `config`.
ConstructedBesidesSink ==
  /\ now = 1
  /\ failure_threshold \in Thresholds
  /\ state = "closed"
  /\ failures = 0
  /\ last_failure_time = 0
  /\ last_success_time = 1
  /\ circuit_breaker_trips = 0
  /\ db_insert_errors = 0
  /\ total_dropped = 0
  /\ records_buffer = <<>>
  /\ current_batch_size = 0
  /\ last_flush_time = 1
  /\ current_poll_timeout = config.initial_poll_timeout
  /\ current_max_batch_size = config.initial_max_batch_size
  /\ insert_latency = 0
  /\ latency_log = <<>>
  /\ retries = <<>>
  /\ messages_inserted = [s \in Symbols |-> 0]
  /\ invalid_messages = 0
  /\ pc = "idle"
  /\ pending = <<>>
  /\ next_offset = 0
  /\ sink_log = <<>>
  /\ counted = {}
  /\ handed = <<>>
  /\ consecutive = 0
  /\ last_exec = "none"

\* An empty table behind a writer with nothing queued.
EmptySink ==
  /\ retry_queue = <<>>
  /\ sink = [k \in Keys |-> NoRow]

\* No pair of flushes is being compared.
NotCompared ==
  /\ flush_pair = <<<<>>, <<>>>>
  /\ sink_swapped = [k \in Keys |-> NoRow]
  /\ queue_swapped = <<>>
  /\ commute_step = 2

NoResult == [outcome |-> "none", attempts |-> 0, slept |-> <<>>]

\* No _execute_with_retry call is looked at on its own.
NoScript ==
  /\ sink_script = <<>>
  /\ retry_result = NoResult

Constructed ==
  /\ ConstructedBesidesSink
  /\ EmptySink
  /\ NotCompared
  /\ NoScript

\* The process after startup() has returned: the consumer loop is polling.
Started ==
  /\ main_pc = "poll"
  /\ running = TRUE
  /\ consumer = "started"
  /\ db_pool = "open"
  /\ shutdown_task = "none"
  /\ exit_code = "none"
  /\ groups_left = 0
  /\ inserting = FALSE
  /\ startup_result = "ok"
  /\ loop_errors = 0
  /\ flush_at_signal = FALSE

Init ==
  /\ config = PipelineConfig
  /\ Constructed
  /\ Started

\* ---------------------------------------------------------------- actions
\* The clock advances while the consumer loop waits in getmany; a flush is
\* short against one clock unit.
Tick ==
  /\ pc = "idle"
  /\ now < MaxTime
  /\ now' = now + 1
  /\ UNCHANGED <<failure_threshold, breaker_vars, writer_vars, processor_vars,
                 pc, pending, next_offset, history_vars>>
  /\ UNCHANGED controller_vars
  /\ UNCHANGED failure_path_vars
  /\ UNCHANGED lifecycle_vars
  /\ UNCHANGED commute_vars
  /\ UNCHANGED upsert_vars

\* process_message for a message parse_message rejects.
ProcessInvalid ==
  /\ pc = "idle"
  /\ next_offset < MaxMsgs
  /\ next_offset' = next_offset + 1
  /\ invalid_messages' = invalid_messages + 1
  /\ UNCHANGED <<now, failure_threshold, breaker_vars, writer_vars,
                 records_buffer, last_flush_time, current_max_batch_size,
                 messages_inserted, pc, pending, history_vars>>
  /\ UNCHANGED controller_vars
  /\ UNCHANGED failure_path_vars
  /\ UNCHANGED lifecycle_vars
  /\ UNCHANGED commute_vars
  /\ UNCHANGED current_batch_size
  /\ UNCHANGED upsert_vars

\* process_message once parse_message has returned the payload c: append,
\* then _should_flush and the grouping at the head of _flush_buffer.
Accept(c) ==
  /\ pc = "idle"
  /\ next_offset < MaxMsgs
  /\   LET data == [offset |-> next_offset, symbol |-> c.symbol,
                    start_time |-> c.start_time, open_price |-> c.open_price,
                    high_price |-> c.high_price, low_price |-> c.low_price,
                    close_price |-> c.close_price, volume |-> c.volume]
           buf == Append(records_buffer, data)
       IN  /\ records_buffer' = buf
           /\ current_batch_size' = Len(buf)
           /\ IF ShouldFlush(buf, current_max_batch_size, now, last_flush_time)
              THEN /\ pc' = "flush"
                   /\ pending' = BatchedRecords(buf)
              ELSE UNCHANGED <<pc, pending>>
  /\ next_offset' = next_offset + 1
  /\ UNCHANGED <<now, failure_threshold, breaker_vars, writer_vars,
                 last_flush_time, current_max_batch_size, messages_inserted,
                 invalid_messages, history_vars>>
  /\ UNCHANGED controller_vars
  /\ UNCHANGED failure_path_vars
  /\ UNCHANGED lifecycle_vars
  /\ UNCHANGED commute_vars
  /\ UNCHANGED upsert_vars

\* process_message for a valid message.
ProcessMessage == \E c \in Candles : Accept(c)

\* insert_batch(group) where execute fails fast: CircuitBreakerError is
\* caught and logged by insert_batch; the flush loop then counts the group.
InsertRejected ==
  /\ pc = "flush"
  /\ pending # <<>>
  /\ LET g == ExecuteGate(state, now, last_failure_time)
         group == Head(pending)
     IN  /\ g.verdict = "reject"
         /\ state' = g.state
         /\ messages_inserted' =
              [messages_inserted EXCEPT ![group[1].symbol] = @ + Len(group)]
         /\ handed' = Append(handed, group)
  /\ pending' = Tail(pending)
  /\ last_exec' = "rejected"
  /\ UNCHANGED <<now, failure_threshold, failures, last_failure_time,
                 last_success_time, circuit_breaker_trips, writer_vars,
                 records_buffer, last_flush_time, current_max_batch_size,
                 invalid_messages, pc, next_offset, sink_log, counted,
                 consecutive>>
  /\ UNCHANGED controller_vars
  /\ UNCHANGED failure_path_vars
  /\ UNCHANGED lifecycle_vars
  /\ UNCHANGED commute_vars
  /\ UNCHANGED current_batch_size
  /\ UNCHANGED upsert_vars

\* insert_batch(group) up to the await of the operation inside execute.
InsertStart ==
  /\ pc = "flush"
  /\ pending # <<>>
  /\ LET g == ExecuteGate(state, now, last_failure_time)
     IN  /\ g.verdict = "call"
         /\ state' = g.state
  /\ pc' = "op"
  /\ handed' = Append(handed, Head(pending))
  /\ last_exec' = "calling"
  /\ UNCHANGED <<now, failure_threshold, failures, last_failure_time,
                 last_success_time, circuit_breaker_trips, writer_vars,
                 processor_vars, pending, next_offset, sink_log, counted,
                 consecutive>>
  /\ UNCHANGED controller_vars
  /\ UNCHANGED failure_path_vars
  /\ UNCHANGED lifecycle_vars
  /\ UNCHANGED commute_vars
  /\ UNCHANGED upsert_vars

\* The operation returns or raises; execute handles it; insert_batch
\* finishes (queueing the records when execute returned None, swallowing
\* the error when it raised); the flush loop counts the group.
InsertFinish ==
  /\ pc = "op"
  /\ \E s1 \in SinkScripts, s2 \in SinkScripts :
       LET group == Head(pending)
           res == DoInsert(sink, retry_queue, group, s1, s2)
       IN  /\ sink' = res.table
           /\ sink_log' = sink_log \o res.written
           /\ db_insert_errors' = db_insert_errors + res.insert_errors
           /\ counted' = counted \cup res.counted
           /\ IF res.ok
              THEN LET h == HandleSuccess(state, now)
                   IN  /\ state' = h.state
                       /\ failures' = h.failures
                       /\ last_success_time' = h.last_success_time
                       /\ retry_queue' = QueueForRetry(res.queue, group)
                       /\ consecutive' = 0
                       /\ last_exec' = "success"
                       /\ UNCHANGED <<last_failure_time, circuit_breaker_trips>>
              ELSE LET h == HandleFailure(state, failures, failure_threshold, now)
                   IN  /\ state' = h.state
                       /\ failures' = h.failures
                       /\ last_failure_time' = h.last_failure_time
                       /\ circuit_breaker_trips' =
                            circuit_breaker_trips + (IF h.tripped THEN 1 ELSE 0)
                       /\ retry_queue' = res.queue
                       /\ consecutive' = consecutive + 1
                       /\ last_exec' = "failure"
                       /\ UNCHANGED last_success_time
           /\ messages_inserted' =
                [messages_inserted EXCEPT ![group[1].symbol] = @ + Len(group)]
  /\ pending' = Tail(pending)
  /\ pc' = "flush"
  /\ UNCHANGED <<now, failure_threshold, records_buffer, last_flush_time,
                 current_max_batch_size, invalid_messages, next_offset, handed,
                 total_dropped>>
  /\ UNCHANGED controller_vars
  /\ UNCHANGED failure_path_vars
  /\ UNCHANGED lifecycle_vars
  /\ UNCHANGED commute_vars
  /\ UNCHANGED current_batch_size
  /\ UNCHANGED upsert_vars

\* The tail of _flush_buffer: the controller adapts to the measured latency,
\* then the finally block clears the buffer and stamps last_flush_time.
FlushDone ==
  /\ pc = "flush"
  /\ pending = <<>>
  /\ \E latency \in Latencies :
       LET a == AdaptPollingParameters(current_poll_timeout,
                                       current_max_batch_size, latency, config)
       IN  /\ current_poll_timeout' = a.poll
           /\ current_max_batch_size' = a.size
  /\ LET f == FinallyBlock(records_buffer, now)
     IN  /\ records_buffer' = f.records_buffer
         /\ current_batch_size' = f.current_batch_size
         /\ last_flush_time' = f.last_flush_time
  /\ handed' = <<>>
  /\ pc' = "idle"
  /\ UNCHANGED <<now, failure_threshold, breaker_vars, writer_vars,
                 messages_inserted, invalid_messages, pending, next_offset,
                 config, insert_latency, sink_log, counted, consecutive,
                 last_exec>>
  /\ UNCHANGED failure_path_vars
  /\ UNCHANGED lifecycle_vars
  /\ UNCHANGED commute_vars
  /\ UNCHANGED latency_log
  /\ UNCHANGED upsert_vars

Next ==
  \/ Tick
  \/ ProcessInvalid
  \/ ProcessMessage
  \/ InsertRejected
  \/ InsertStart
  \/ InsertFinish
  \/ FlushDone

Spec == Init /\ [][Next]_vars

\* The consumer loop keeps running: getmany returns when its timeout
\* expires, and a flush that has started runs to its end. Nothing obliges
\* the source to deliver another message.
LiveSpec ==
  /\ Spec
  /\ WF_vars(Tick)
  /\ WF_vars(InsertRejected \/ InsertStart \/ InsertFinish \/ FlushDone)

\* ------------------------------------------------ the pipeline from bytes
\* process_message on the message values of RawMessages.
IngestValid ==
  \E raw \in RawMessages :
     /\ ParseMessage(raw).outcome = "ok"
     /\ Accept(ParseMessage(raw).data)

\* parse_message counts the message as invalid and returns None.
IngestInvalid ==
  /\ \E raw \in RawMessages :
       ParseMessage(raw).outcome \in {"json_decode_error", "validation_error"}
  /\ ProcessInvalid

\* parse_message raises: the exception leaves process_message and the loops
\* over the polled batch, is logged by the consumer loop, and the loop polls
\* again after a sleep; the messages left in the batch are not processed.
IngestRaises ==
  /\ pc = "idle"
  /\ next_offset < MaxMsgs
  /\ \E raw \in RawMessages : ParseMessage(raw).outcome = "type_error"
  /\ next_offset' \in (next_offset + 1)..MaxMsgs
  /\ UNCHANGED <<now, failure_threshold, breaker_vars, writer_vars,
                 processor_vars, pc, pending, controller_vars, history_vars>>
  /\ UNCHANGED failure_path_vars
  /\ UNCHANGED lifecycle_vars
  /\ UNCHANGED commute_vars
  /\ UNCHANGED upsert_vars

IngressNext ==
  \/ Tick
  \/ IngestValid
  \/ IngestInvalid
  \/ IngestRaises
  \/ InsertRejected
  \/ InsertStart
  \/ InsertFinish
  \/ FlushDone

IngressSpec == Init /\ [][IngressNext]_vars

\* ------------------------------------------------- the breaker on its own
\* DatabaseCircuitBreaker.execute called by any caller at any time, with an
\* operation that may succeed or raise; the clock may advance between calls
\* and while the operation is awaited.
BreakerTick ==
  /\ pc \in {"idle", "op"}
  /\ now < MaxBreakerTime
  /\ now' = now + 1
  /\ UNCHANGED <<failure_threshold, breaker_vars, writer_vars, processor_vars,
                 pc, pending, next_offset, history_vars>>
  /\ UNCHANGED controller_vars
  /\ UNCHANGED failure_path_vars
  /\ UNCHANGED lifecycle_vars
  /\ UNCHANGED commute_vars
  /\ UNCHANGED upsert_vars

\* execute raising CircuitBreakerError before the operation is called.
ExecuteRejected ==
  /\ pc = "idle"
  /\ LET g == ExecuteGate(state, now, last_failure_time)
     IN  /\ g.verdict = "reject"
         /\ state' = g.state
  /\ last_exec' = "rejected"
  /\ UNCHANGED <<now, failure_threshold, failures, last_failure_time,
                 last_success_time, circuit_breaker_trips, writer_vars,
                 processor_vars, pc, pending, next_offset, sink_log, counted,
                 handed, consecutive>>
  /\ UNCHANGED controller_vars
  /\ UNCHANGED failure_path_vars
  /\ UNCHANGED lifecycle_vars
  /\ UNCHANGED commute_vars
  /\ UNCHANGED upsert_vars

\* execute up to `await operation()`.
ExecuteStart ==
  /\ pc = "idle"
  /\ LET g == ExecuteGate(state, now, last_failure_time)
     IN  /\ g.verdict = "call"
         /\ state' = g.state
  /\ pc' = "op"
  /\ last_exec' = "calling"
  /\ UNCHANGED <<now, failure_threshold, failures, last_failure_time,
                 last_success_time, circuit_breaker_trips, writer_vars,
                 processor_vars, pending, next_offset, sink_log, counted,
                 handed, consecutive>>
  /\ UNCHANGED controller_vars
  /\ UNCHANGED failure_path_vars
  /\ UNCHANGED lifecycle_vars
  /\ UNCHANGED commute_vars
  /\ UNCHANGED upsert_vars

\* The operation returned: _handle_success.
ExecuteSuccess ==
  /\ pc = "op"
  /\ LET h == HandleSuccess(state, now)
     IN  /\ state' = h.state
         /\ failures' = h.failures
         /\ last_success_time' = h.last_success_time
  /\ consecutive' = 0
  /\ last_exec' = "success"
  /\ pc' = "idle"
  /\ UNCHANGED <<now, failure_threshold, last_failure_time,
                 circuit_breaker_trips, writer_vars, processor_vars, pending,
                 next_offset, sink_log, counted, handed>>
  /\ UNCHANGED controller_vars
  /\ UNCHANGED failure_path_vars
  /\ UNCHANGED lifecycle_vars
  /\ UNCHANGED commute_vars
  /\ UNCHANGED upsert_vars

\* The operation raised: _handle_failure.
ExecuteFailure ==
  /\ pc = "op"
  /\ LET h == HandleFailure(state, failures, failure_threshold, now)
     IN  /\ state' = h.state
         /\ failures' = h.failures
         /\ last_failure_time' = h.last_failure_time
         /\ circuit_breaker_trips' =
              circuit_breaker_trips + (IF h.tripped THEN 1 ELSE 0)
  /\ consecutive' = consecutive + 1
  /\ last_exec' = "failure"
  /\ pc' = "idle"
  /\ UNCHANGED <<now, failure_threshold, last_success_time, writer_vars,
                 processor_vars, pending, next_offset, sink_log, counted,
                 handed>>
  /\ UNCHANGED controller_vars
  /\ UNCHANGED failure_path_vars
  /\ UNCHANGED lifecycle_vars
  /\ UNCHANGED commute_vars
  /\ UNCHANGED upsert_vars

BreakerNext ==
  \/ BreakerTick
  \/ ExecuteRejected
  \/ ExecuteStart
  \/ ExecuteSuccess
  \/ ExecuteFailure

BreakerSpec == Init /\ [][BreakerNext]_vars

\* ------------------------------------- the processor and its controller
\* The MessageProcessor under every configuration validate_config accepts.
\* The writer is left out: insert_batch returns to the flush loop whatever
\* happens at the sink, and changes nothing the processor reads.
ControllerInit ==
  /\ config \in Configs
  /\ Constructed
  /\ Started

\* _flush_buffer: one turn of the loop over the symbol groups.
FlushGroup ==
  /\ pc = "flush"
  /\ pending # <<>>
  /\ messages_inserted' =
       [messages_inserted EXCEPT ![Head(pending)[1].symbol] =
          @ + Len(Head(pending))]
  /\ handed' = Append(handed, Head(pending))
  /\ pending' = Tail(pending)
  /\ UNCHANGED <<now, failure_threshold, breaker_vars, writer_vars,
                 records_buffer, last_flush_time, current_max_batch_size,
                 invalid_messages, pc, next_offset, controller_vars, sink_log,
                 counted, consecutive, last_exec>>
  /\ UNCHANGED failure_path_vars
  /\ UNCHANGED lifecycle_vars
  /\ UNCHANGED commute_vars
  /\ UNCHANGED current_batch_size
  /\ UNCHANGED upsert_vars

\* _flush_buffer: insert_latency = time.time() - start_time
MeasureLatency ==
  /\ pc = "flush"
  /\ pending = <<>>
  /\ insert_latency' \in Latencies \cup ThresholdLatencies
  /\ pc' = "adapt"
  /\ UNCHANGED <<now, failure_threshold, breaker_vars, writer_vars,
                 processor_vars, pending, next_offset, config,
                 current_poll_timeout, history_vars>>
  /\ UNCHANGED failure_path_vars
  /\ UNCHANGED lifecycle_vars
  /\ UNCHANGED commute_vars
  /\ UNCHANGED latency_log
  /\ UNCHANGED upsert_vars

\* _flush_buffer: _adapt_polling_parameters(insert_latency), then the
\* finally block. When the flush was started by _handle_insert_failure, the
\* handler returns to the except block of the flush that called it, whose
\* finally block runs next, and so on outwards without a further await.
AdaptAndClear ==
  /\ pc = "adapt"
  /\ LET a == AdaptPollingParameters(current_poll_timeout,
                                     current_max_batch_size, insert_latency,
                                     config)
     IN  /\ current_poll_timeout' = a.poll
         /\ current_max_batch_size' = a.size
  /\ LET f == FinallyBlock(records_buffer, now)
     IN  /\ records_buffer' = f.records_buffer
         /\ current_batch_size' = f.current_batch_size
         /\ last_flush_time' = f.last_flush_time
  /\ handed' = <<>>
  /\ retries' = <<>>
  /\ pc' = "idle"
  /\ UNCHANGED <<now, failure_threshold, breaker_vars, writer_vars,
                 messages_inserted, invalid_messages, pending, next_offset,
                 config, insert_latency, sink_log, counted, consecutive,
                 last_exec>>
  /\ UNCHANGED lifecycle_vars
  /\ UNCHANGED commute_vars
  /\ UNCHANGED latency_log
  /\ UNCHANGED upsert_vars

ControllerNext ==
  \/ Tick
  \/ ProcessInvalid
  \/ ProcessMessage
  \/ FlushGroup
  \/ MeasureLatency
  \/ AdaptAndClear

ControllerSpec == ControllerInit /\ [][ControllerNext]_vars

\* ------------------------------------------- the failure path of a flush
\* _flush_buffer: the try block raises. insert_batch swallows its errors, so
\* what is left is the division at the rate metric when the two time.time()
\* readings are equal; the except block counts the error.
FlushRaises ==
  /\ pc = "flush"
  /\ pending = <<>>
  /\ insert_latency' = 0
  /\ db_insert_errors' = db_insert_errors + 1
  /\ pc' = "failed"
  /\ UNCHANGED <<now, failure_threshold, breaker_vars, retry_queue, sink,
                 total_dropped, processor_vars, pending, next_offset, config,
                 current_poll_timeout, history_vars, failure_path_vars>>
  /\ UNCHANGED lifecycle_vars
  /\ UNCHANGED commute_vars
  /\ UNCHANGED latency_log
  /\ UNCHANGED upsert_vars

\* Mutant of BufferAtRetry: the finally block has run before the retry.
BufferAtRetry_AfterFinally(buf) == FinallyBlock(buf, 0).records_buffer

\* The buffer the nested _flush_buffer finds: the except block awaits
\* _handle_insert_failure before the finally block runs.
BufferAtRetry(buf) == buf

\* _handle_insert_failure, awaited by the except block: the first turn of
\* its loop sleeps retry_delay * 2 ** attempt and awaits _flush_buffer,
\* which finds the buffer as it was (no finally block has run yet). The
\* nested flush catches its own errors and calls a handler of its own, so
\* it never raises to this one, whose attempt stays 0 until it returns.
HandleInsertFailure ==
  /\ pc = "failed"
  /\ retry_attempts > 0
  /\ LET attempt == 0
         slept == retry_delay * (2 ^ attempt)
     IN  /\ now + slept <= MaxRetryTime
         /\ now' = now + slept
         /\ retries' = Append(retries, [attempt |-> attempt, slept |-> slept])
  /\ pending' = BatchedRecords(BufferAtRetry(records_buffer))
  /\ handed' = <<>>
  /\ pc' = "flush"
  /\ UNCHANGED <<failure_threshold, breaker_vars, writer_vars, processor_vars,
                 next_offset, controller_vars, sink_log, counted, consecutive,
                 last_exec>>
  /\ UNCHANGED lifecycle_vars
  /\ UNCHANGED commute_vars
  /\ UNCHANGED upsert_vars

RetryNext ==
  \/ Tick
  \/ ProcessInvalid
  \/ ProcessMessage
  \/ FlushGroup
  \/ MeasureLatency
  \/ AdaptAndClear
  \/ FlushRaises
  \/ HandleInsertFailure

RetrySpec == Init /\ [][RetryNext]_vars

\* ------------------------------------------------ the life of the process
\* From the import of the configuration to the exit of the process. What
\* the pipeline does with the messages is left out: a flush is the number of
\* groups it has yet to insert.
pipeline_vars == <<now, failure_threshold, breaker_vars, writer_vars,
                   processor_vars, pc, pending, next_offset, controller_vars,
                   failure_path_vars, commute_vars, upsert_vars, sink_log,
                   counted, handed, consecutive, last_exec>>

Launched ==
  /\ main_pc = "load"
  /\ running = FALSE
  /\ consumer = "none"
  /\ db_pool = "none"
  /\ shutdown_task = "none"
  /\ exit_code = "none"
  /\ groups_left = 0
  /\ inserting = FALSE
  /\ startup_result = "pending"
  /\ loop_errors = 0
  /\ flush_at_signal = FALSE

LifecycleInit ==
  /\ config \in RawConfigs
  /\ Constructed
  /\ Launched

\* main: while app.running
LoopTest(is_running) == IF is_running THEN "poll" ELSE "final"

\* Mutant of AfterLoopError: an error ends the consumer loop.
AfterLoopError_Stops(is_running) == "final"

\* main: the except block of the loop body
AfterLoopError(is_running) == IF is_running THEN "sleep" ELSE "final"

\* What pool.close() makes of the pool once no connection is held.
ClosePool(pool) == IF pool = "none" THEN "none" ELSE "closed"

\* The flush in flight when the signal arrived has inserted its last group.
FlushOver(left) == IF left = 0 THEN FALSE ELSE flush_at_signal

\* loader.py, run when main.py imports the configuration.
LoadConfig ==
  /\ main_pc = "load"
  /\ IF ValidateConfig(config)
     THEN /\ main_pc' = "startup"
          /\ UNCHANGED exit_code
     ELSE /\ main_pc' = "exit"
          /\ exit_code' = 1
  /\ UNCHANGED <<running, consumer, db_pool, shutdown_task, groups_left,
                 inserting, startup_result, loop_errors, flush_at_signal>>
  /\ UNCHANGED pipeline_vars

\* startup(): it returns with running set, or raises because the consumer
\* could not be started or the sink could not be reached (the pool may or
\* may not exist by then); main catches and logs what startup raises.
Startup ==
  /\ main_pc = "startup"
  /\ \E r \in {"ok", "consumer_failed", "sink_failed"} :
       /\ startup_result' = r
       /\ consumer' = IF r = "consumer_failed" THEN "created" ELSE "started"
       /\ db_pool' \in CASE r = "ok" -> {"open"}
                         [] r = "consumer_failed" -> {"none"}
                         [] OTHER -> {"none", "open"}
       /\ running' = (r = "ok")
       /\ main_pc' = IF r = "ok" THEN "top" ELSE "final"
  /\ UNCHANGED <<shutdown_task, exit_code, groups_left, inserting, loop_errors,
                 flush_at_signal>>
  /\ UNCHANGED pipeline_vars

LoopTop ==
  /\ main_pc = "top"
  /\ main_pc' = LoopTest(running)
  /\ UNCHANGED <<running, consumer, db_pool, shutdown_task, exit_code,
                 groups_left, inserting, startup_result, loop_errors,
                 flush_at_signal>>
  /\ UNCHANGED pipeline_vars

\* getmany returns a batch, returns nothing, or raises because the consumer
\* has been stopped.
Poll ==
  /\ main_pc = "poll"
  /\ \/ /\ consumer = "started"
        /\ main_pc' = "process"
        /\ UNCHANGED loop_errors
     \/ /\ main_pc' = "top"
        /\ UNCHANGED loop_errors
     \/ /\ consumer = "stopped"
        /\ loop_errors < MaxLoopErrors
        /\ main_pc' = "except"
        /\ loop_errors' = loop_errors + 1
  /\ UNCHANGED <<running, consumer, db_pool, shutdown_task, exit_code,
                 groups_left, inserting, startup_result, flush_at_signal>>
  /\ UNCHANGED pipeline_vars

\* process_message raises (parse_message on a message whose value is no
\* JSON object).
ProcessRaises ==
  /\ main_pc = "process"
  /\ groups_left = 0
  /\ loop_errors < MaxLoopErrors
  /\ main_pc' = "except"
  /\ loop_errors' = loop_errors + 1
  /\ UNCHANGED <<running, consumer, db_pool, shutdown_task, exit_code,
                 groups_left, inserting, startup_result, flush_at_signal>>
  /\ UNCHANGED pipeline_vars

\* process_message starts a flush.
FlushBegins ==
  /\ main_pc = "process"
  /\ groups_left = 0
  /\ groups_left' \in 1..MaxGroups
  /\ UNCHANGED <<main_pc, running, consumer, db_pool, shutdown_task, exit_code,
                 inserting, startup_result, loop_errors, flush_at_signal>>
  /\ UNCHANGED pipeline_vars

\* insert_batch for the next group: pool.acquire() hands out a connection,
\* or raises on a pool that is closing or closed, which insert_batch logs.
InsertBegins ==
  /\ main_pc = "process"
  /\ groups_left > 0
  /\ ~inserting
  /\ IF db_pool = "open"
     THEN /\ inserting' = TRUE
          /\ UNCHANGED <<groups_left, flush_at_signal>>
     ELSE /\ groups_left' = groups_left - 1
          /\ flush_at_signal' = FlushOver(groups_left - 1)
          /\ UNCHANGED inserting
  /\ UNCHANGED <<main_pc, running, consumer, db_pool, shutdown_task, exit_code,
                 startup_result, loop_errors>>
  /\ UNCHANGED pipeline_vars

\* The insert ends and its connection goes back to the pool.
InsertEnds ==
  /\ inserting
  /\ inserting' = FALSE
  /\ groups_left' = groups_left - 1
  /\ flush_at_signal' = FlushOver(groups_left - 1)
  /\ UNCHANGED <<main_pc, running, consumer, db_pool, shutdown_task, exit_code,
                 startup_result, loop_errors>>
  /\ UNCHANGED pipeline_vars

\* The messages of the batch are processed: back to the loop test.
BatchDone ==
  /\ main_pc = "process"
  /\ groups_left = 0
  /\ main_pc' = "top"
  /\ UNCHANGED <<running, consumer, db_pool, shutdown_task, exit_code,
                 groups_left, inserting, startup_result, loop_errors,
                 flush_at_signal>>
  /\ UNCHANGED pipeline_vars

\* The except block of the loop body: break if running is false, else
\* sleep one second.
HandleLoopError ==
  /\ main_pc = "except"
  /\ main_pc' = AfterLoopError(running)
  /\ UNCHANGED <<running, consumer, db_pool, shutdown_task, exit_code,
                 groups_left, inserting, startup_result, loop_errors,
                 flush_at_signal>>
  /\ UNCHANGED pipeline_vars

SleepOver ==
  /\ main_pc = "sleep"
  /\ main_pc' = "top"
  /\ UNCHANGED <<running, consumer, db_pool, shutdown_task, exit_code,
                 groups_left, inserting, startup_result, loop_errors,
                 flush_at_signal>>
  /\ UNCHANGED pipeline_vars

\* SIGTERM or SIGINT once the handlers are installed: the handler creates a
\* task that runs shutdown().
Signal ==
  /\ main_pc \in {"top", "poll", "process", "except", "sleep"}
  /\ shutdown_task = "none"
  /\ shutdown_task' = "created"
  /\ flush_at_signal' = (groups_left > 0)
  /\ UNCHANGED <<main_pc, running, consumer, db_pool, exit_code, groups_left,
                 inserting, startup_result, loop_errors>>
  /\ UNCHANGED pipeline_vars

\* shutdown() in the task, up to the await of consumer.stop()
ShutdownStarts ==
  /\ shutdown_task = "created"
  /\ running' = FALSE
  /\ shutdown_task' = "stopping"
  /\ UNCHANGED <<main_pc, consumer, db_pool, exit_code, groups_left, inserting,
                 startup_result, loop_errors, flush_at_signal>>
  /\ UNCHANGED pipeline_vars

\* consumer.stop() returns; shutdown() goes on to await db_pool.close(),
\* which refuses new acquirers from then on.
ShutdownStopsConsumer ==
  /\ shutdown_task = "stopping"
  /\ consumer' = "stopped"
  /\ db_pool' = IF db_pool = "open" THEN "closing" ELSE db_pool
  /\ shutdown_task' = "closing"
  /\ UNCHANGED <<main_pc, running, exit_code, groups_left, inserting,
                 startup_result, loop_errors, flush_at_signal>>
  /\ UNCHANGED pipeline_vars

\* db_pool.close() returns once every connection has been released.
ShutdownClosesPool ==
  /\ shutdown_task = "closing"
  /\ ~inserting
  /\ db_pool' = ClosePool(db_pool)
  /\ shutdown_task' = "done"
  /\ UNCHANGED <<main_pc, running, consumer, exit_code, groups_left, inserting,
                 startup_result, loop_errors, flush_at_signal>>
  /\ UNCHANGED pipeline_vars

\* main: the finally block awaits shutdown(); here up to consumer.stop().
FinalShutdown ==
  /\ main_pc = "final"
  /\ running' = FALSE
  /\ consumer' = "stopped"
  /\ db_pool' = IF db_pool = "open" THEN "closing" ELSE db_pool
  /\ main_pc' = "final_close"
  /\ UNCHANGED <<shutdown_task, exit_code, groups_left, inserting,
                 startup_result, loop_errors, flush_at_signal>>
  /\ UNCHANGED pipeline_vars

\* The pool is closed, main() returns and asyncio.run returns: the
\* interpreter exits with status 0.
MainReturns ==
  /\ main_pc = "final_close"
  /\ db_pool' = ClosePool(db_pool)
  /\ main_pc' = "exit"
  /\ exit_code' = 0
  /\ UNCHANGED <<running, consumer, shutdown_task, groups_left, inserting,
                 startup_result, loop_errors, flush_at_signal>>
  /\ UNCHANGED pipeline_vars

LifecycleNext ==
  \/ LoadConfig
  \/ Startup
  \/ LoopTop
  \/ Poll
  \/ ProcessRaises
  \/ FlushBegins
  \/ InsertBegins
  \/ InsertEnds
  \/ BatchDone
  \/ HandleLoopError
  \/ SleepOver
  \/ Signal
  \/ ShutdownStarts
  \/ ShutdownStopsConsumer
  \/ ShutdownClosesPool
  \/ FinalShutdown
  \/ MainReturns

LifecycleSpec == LifecycleInit /\ [][LifecycleNext]_vars

\* --------------------------------------------- two flushes in either order
\* Candles of three symbols, so that a flush can hold two groups and still
\* share no symbol with the other flush.
CommuteCandles ==
  Candles \cup
  { [symbol |-> "C", start_time |-> 1, open_price |-> 101, high_price |-> 111,
     low_price |-> 94, close_price |-> 104, volume |-> 6] }

CommuteKeys == {<<c.start_time, c.symbol>> : c \in CommuteCandles}

\* The record process_message appends for candle c of the message at offset o.
RecordOf(c, o) ==
  [offset |-> o, symbol |-> c.symbol, start_time |-> c.start_time,
   open_price |-> c.open_price, high_price |-> c.high_price,
   low_price |-> c.low_price, close_price |-> c.close_price,
   volume |-> c.volume]

\* Buffers of 1..MaxFlushLen records whose offsets start at `first`.
Buffers(first) ==
  UNION { { [i \in 1..n |-> RecordOf(cs[i], first + i - 1)] :
            cs \in [1..n -> CommuteCandles] } : n \in 1..MaxFlushLen }

\* A row written before the run, or none, for every key.
InitialTables ==
  [CommuteKeys -> {NoRow, [open |-> 102, high |-> 109, low |-> 96,
                           close |-> 101, volume |-> 3]}]

\* Nothing queued, or the record of an earlier message.
InitialQueues ==
  {<<>>} \cup {<<RecordOf(c, -1)>> : c \in CommuteCandles}

SymbolsOf(buf) == {buf[i].symbol : i \in 1..Len(buf)}

\* The loop of _flush_buffer over the groups with a CLOSED breaker and a
\* healthy sink: each insert_batch writes the queue and the group, then
\* queues the group if it fits.
RECURSIVE FlushGroups(_, _, _)
FlushGroups(tbl, queue, groups) ==
  IF groups = <<>> THEN [table |-> tbl, queue |-> queue]
  ELSE LET res == DoInsert(tbl, queue, Head(groups), <<"ok">>, <<"ok">>)
       IN  FlushGroups(res.table, QueueForRetry(res.queue, Head(groups)),
                       Tail(groups))

\* _flush_buffer on buffer buf
HealthyFlush(tbl, queue, buf) == FlushGroups(tbl, queue, BatchedRecords(buf))

CommuteInit ==
  /\ config = PipelineConfig
  /\ ConstructedBesidesSink
  /\ Started
  /\ NoScript
  /\ sink \in InitialTables
  /\ retry_queue \in InitialQueues
  /\ sink_swapped = sink
  /\ queue_swapped = retry_queue
  /\ \E f1 \in Buffers(0) :
       \E f2 \in Buffers(Len(f1)) : flush_pair = <<f1, f2>>
  /\ commute_step = 0

\* One flush in each order: the first buffer here, the second there.
FlushFirst ==
  /\ commute_step = 0
  /\ LET a == HealthyFlush(sink, retry_queue, flush_pair[1])
         b == HealthyFlush(sink_swapped, queue_swapped, flush_pair[2])
     IN  /\ sink' = a.table
         /\ retry_queue' = a.queue
         /\ sink_swapped' = b.table
         /\ queue_swapped' = b.queue
  /\ commute_step' = 1
  /\ UNCHANGED <<now, failure_threshold, breaker_vars, db_insert_errors,
                 total_dropped, processor_vars, pc, pending, next_offset,
                 controller_vars, failure_path_vars, flush_pair, history_vars>>
  /\ UNCHANGED lifecycle_vars
  /\ UNCHANGED upsert_vars

\* The other flush in each order.
FlushSecond ==
  /\ commute_step = 1
  /\ LET a == HealthyFlush(sink, retry_queue, flush_pair[2])
         b == HealthyFlush(sink_swapped, queue_swapped, flush_pair[1])
     IN  /\ sink' = a.table
         /\ retry_queue' = a.queue
         /\ sink_swapped' = b.table
         /\ queue_swapped' = b.queue
  /\ commute_step' = 2
  /\ UNCHANGED <<now, failure_threshold, breaker_vars, db_insert_errors,
                 total_dropped, processor_vars, pc, pending, next_offset,
                 controller_vars, failure_path_vars, flush_pair, history_vars>>
  /\ UNCHANGED lifecycle_vars
  /\ UNCHANGED upsert_vars

CommuteNext ==
  \/ FlushFirst
  \/ FlushSecond

CommuteSpec == CommuteInit /\ [][CommuteNext]_vars

\* ------------------------------------- the controller from the defaults
\* The defaults of loader.py: timeouts in units of 1 / DefaultScale seconds,
\* fine enough for MaxFlushes adaptations to be exact; latencies in
\* milliseconds as above.
DefaultScale == 10 ^ MaxFlushes

DefaultConfig ==
  [initial_poll_timeout |-> 1 * DefaultScale,
   initial_max_batch_size |-> 500,
   latency_threshold_high |-> 1000,
   latency_threshold_low |-> 200,
   poll_timeout_min |-> DefaultScale \div 2,
   poll_timeout_max |-> 5 * DefaultScale,
   batch_size_min |-> 100,
   batch_size_max |-> 2000]

DefaultsInit ==
  /\ config = DefaultConfig
  /\ Constructed
  /\ Started

\* The tail of one _flush_buffer: the latency is measured and the
\* controller adapts to it.
DefaultFlush ==
  /\ Len(latency_log) < MaxFlushes
  /\ \E latency \in Latencies \cup ThresholdLatencies :
       LET a == AdaptPollingParameters(current_poll_timeout,
                                       current_max_batch_size, latency, config)
       IN  /\ insert_latency' = latency
           /\ latency_log' = Append(latency_log, latency)
           /\ current_poll_timeout' = a.poll
           /\ current_max_batch_size' = a.size
  /\ UNCHANGED <<now, failure_threshold, breaker_vars, writer_vars,
                 records_buffer, last_flush_time, messages_inserted,
                 invalid_messages, pc, pending, next_offset, config,
                 failure_path_vars, commute_vars, history_vars, lifecycle_vars>>
  /\ UNCHANGED current_batch_size
  /\ UNCHANGED upsert_vars

DefaultsNext == DefaultFlush

DefaultsSpec == DefaultsInit /\ [][DefaultsNext]_vars

\* ------------------------------------------ one _execute_with_retry call
\* One insert_batch call of one record on a new DatabaseManager, with every
\* sequence of answers the sink can give to the executemany attempts.
Answers == {"ok", "deadlock", "unique", "error"}

AnswerScripts == UNION {[1..n -> Answers] : n \in 1..MaxAnswers}

UpsertInit ==
  /\ config = PipelineConfig
  /\ ConstructedBesidesSink
  /\ EmptySink
  /\ NotCompared
  /\ Started
  /\ sink_script \in AnswerScripts
  /\ retry_result = NoResult

\* _execute_with_retry runs to its end against the answers of the sink.
RunExecuteWithRetry ==
  /\ retry_result = NoResult
  /\ retry_result' = ExecuteWithRetry(sink_script, 0)
  /\ db_insert_errors' =
       db_insert_errors +
         (IF retry_result'.outcome \in {"unique", "error"} THEN 1 ELSE 0)
  /\ last_exec' = "calling"
  /\ UNCHANGED <<now, failure_threshold, breaker_vars, retry_queue, sink,
                 total_dropped, processor_vars, pc, pending, next_offset,
                 controller_vars, failure_path_vars, commute_vars, sink_script,
                 sink_log, counted, handed, consecutive, lifecycle_vars>>

\* What _execute_with_retry raised leaves _insert_records as DatabaseError
\* and reaches execute, which runs _handle_failure; what it returned runs
\* _handle_success.
BreakerHandlesResult ==
  /\ retry_result # NoResult
  /\ last_exec = "calling"
  /\ IF retry_result.outcome \in {"ok", "unique"}
     THEN LET h == HandleSuccess(state, now)
          IN  /\ state' = h.state
              /\ failures' = h.failures
              /\ last_success_time' = h.last_success_time
              /\ last_exec' = "success"
              /\ UNCHANGED <<last_failure_time, circuit_breaker_trips>>
     ELSE LET h == HandleFailure(state, failures, failure_threshold, now)
          IN  /\ state' = h.state
              /\ failures' = h.failures
              /\ last_failure_time' = h.last_failure_time
              /\ circuit_breaker_trips' =
                   circuit_breaker_trips + (IF h.tripped THEN 1 ELSE 0)
              /\ last_exec' = "failure"
              /\ UNCHANGED last_success_time
  /\ UNCHANGED <<now, failure_threshold, writer_vars, processor_vars, pc,
                 pending, next_offset, controller_vars, failure_path_vars,
                 commute_vars, upsert_vars, sink_log, counted, handed,
                 consecutive, lifecycle_vars>>

UpsertNext ==
  \/ RunExecuteWithRetry
  \/ BreakerHandlesResult

UpsertSpec == UpsertInit /\ [][UpsertNext]_vars

\* ------------------------------------------------- adaptation of the batch
\* The controller under one latency regime: every flush is fast (latency
\* below latency_threshold_low) or every flush is slow (latency above
\* latency_threshold_high), from any configuration with
\* 1 <= batch_size_min <= initial_max_batch_size <= batch_size_max.

\* Configurations with ordered batch sizes.
OrderedConfigs ==
  { c \in [initial_poll_timeout : {PipelineConfig.initial_poll_timeout},
           initial_max_batch_size : 1..MaxBatchSize,
           latency_threshold_high : {latency_threshold_high},
           latency_threshold_low : {latency_threshold_low},
           poll_timeout_min : {PipelineConfig.poll_timeout_min},
           poll_timeout_max : {PipelineConfig.poll_timeout_max},
           batch_size_min : 1..MaxBatchSize,
           batch_size_max : 1..MaxBatchSize] :
      /\ c.batch_size_min <= c.initial_max_batch_size
      /\ c.initial_max_batch_size <= c.batch_size_max }

AdaptInit ==
  /\ config \in OrderedConfigs
  /\ Constructed
  /\ Started

\* The latency of a flush below latency_threshold_low.
IsFast(latency) == latency > 0 /\ latency < config.latency_threshold_low

\* The latency of a flush above latency_threshold_high.
IsSlow(latency) == latency > config.latency_threshold_high

\* _adapt_polling_parameters at the end of a flush of the given latency.
AdaptTo(latency) ==
  /\ LET a == AdaptPollingParameters(current_poll_timeout,
                                     current_max_batch_size, latency, config)
     IN  /\ current_poll_timeout' = a.poll
         /\ current_max_batch_size' = a.size
  /\ insert_latency' = latency
  /\ UNCHANGED <<now, failure_threshold, breaker_vars, writer_vars,
                 records_buffer, last_flush_time, messages_inserted,
                 invalid_messages, pc, pending, next_offset, config,
                 latency_log, failure_path_vars, commute_vars, history_vars,
                 lifecycle_vars>>
  /\ UNCHANGED current_batch_size
  /\ UNCHANGED upsert_vars

\* A fast flush, in a run whose flushes are all fast.
FastFlush ==
  /\ insert_latency = 0 \/ IsFast(insert_latency)
  /\ \E latency \in Latencies : IsFast(latency) /\ AdaptTo(latency)

\* A slow flush, in a run whose flushes are all slow.
SlowFlush ==
  /\ insert_latency = 0 \/ IsSlow(insert_latency)
  /\ \E latency \in Latencies : IsSlow(latency) /\ AdaptTo(latency)

AdaptNext ==
  \/ FastFlush
  \/ SlowFlush

\* Flushes keep coming.
AdaptSpec ==
  /\ AdaptInit
  /\ [][AdaptNext]_vars
  /\ WF_vars(FastFlush)
  /\ WF_vars(SlowFlush)

\* ----------------------------------------------------------------- claims
\* An insert_batch call is about to be made with the first pending group.
CallDue == pc = "flush" /\ pending # <<>>

\* The breaker is OPEN and reset_timeout has not elapsed since the last failure.
OpenAndWaiting == state = "open" /\ now - last_failure_time < reset_timeout

\* Positions of sink_log at which a record is written for the first time.
FirstWrite(i) == \A j \in 1..(i - 1) : sink_log[j].offset # sink_log[i].offset

Committed(r) == \E i \in 1..Len(sink_log) : sink_log[i].offset = r.offset

\* The records written to the sink for key k, in the order written.
WritesOf(k) == SelectSeq(sink_log, LAMBDA r : <<r.start_time, r.symbol>> = k)

\* C1: a call rejected by the OPEN breaker appends its records to the retry
\* queue whenever they fit.
C1_RejectedRecordsAreQueued ==
  [][(CallDue /\ OpenAndWaiting /\ QueueFits(retry_queue, Head(pending)))
       => retry_queue' = retry_queue \o Head(pending)]_vars

\* C2: when the insert_batch calls of a flush have all returned, every record
\* of the flush has its row at the sink or is covered by an error counter
\* (db_insert_errors, or db_connection_errors for a write that raised; no
\* code path counts a buffered record as invalid, as a validation error or
\* as dropped).
C2_FlushedRecordsAccounted ==
  (pc = "flush" /\ pending = <<>>) =>
     \A i \in 1..Len(records_buffer) :
        \/ Committed(records_buffer[i])
        \/ records_buffer[i].offset \in counted

\* C3: the retry queue never holds more than max_retry_queue_size records.
C3_RetryQueueBounded == Len(retry_queue) <= max_retry_queue_size

\* C3 witness: a list longer than the queue capacity was written
\* successfully and was not queued.
C3_Witness ==
  /\ pc = "flush"
  /\ last_exec = "success"
  /\ handed # <<>>
  /\ Len(handed[Len(handed)]) > max_retry_queue_size
  /\ retry_queue = <<>>

\* C4: an insert_batch call whose wrapped insert fails commits no row of its
\* flush set (retry queue followed by the given records).
C4_FailedCallCommitsNothing ==
  [][(pc = "op" /\ last_exec' = "failure") => sink_log' = sink_log]_vars

\* C5: for every key the sink holds no row if nothing was written for it,
\* and otherwise one row with open, close and volume of the last record
\* written and high the maximum, low the minimum over all records written.
C5_SinkRowIsMergeOfWrites ==
  \A k \in Keys :
     LET w == WritesOf(k)
     IN  IF w = <<>> THEN sink[k] = NoRow
         ELSE /\ sink[k] # NoRow
              /\ sink[k].open = w[Len(w)].open_price
              /\ sink[k].close = w[Len(w)].close_price
              /\ sink[k].volume = w[Len(w)].volume
              /\ \A i \in 1..Len(w) : /\ sink[k].high >= w[i].high_price
                                      /\ sink[k].low <= w[i].low_price
              /\ \E i \in 1..Len(w) : sink[k].high = w[i].high_price
              /\ \E i \in 1..Len(w) : sink[k].low = w[i].low_price

\* C5 witness: a key written several times, the same record more than once,
\* whose high comes from an earlier record than the last one and whose low
\* is below the first one's.
C5_Witness ==
  \E k \in Keys :
     LET w == WritesOf(k)
     IN  /\ Len(w) >= 3
         /\ \E i, j \in 1..Len(w) : i # j /\ w[i] = w[j]
         /\ sink[k] # NoRow
         /\ sink[k].high > w[Len(w)].high_price
         /\ sink[k].low < w[1].low_price

\* C6: the lists handed to insert_batch by a flush are one per symbol, each
\* holding exactly that symbol's buffered records in buffer order, and when
\* the loop is over every buffered record has been handed over.
C6_StablePartitionBySymbol ==
  (pc \in {"flush", "op"}) =>
     /\ \A g \in 1..Len(handed) :
          LET L == handed[g]
          IN  /\ L # <<>>
              /\ \A i \in 1..Len(L) : L[i].symbol = L[1].symbol
              /\ {L[i] : i \in 1..Len(L)} =
                   {records_buffer[i] : i \in
                      {n \in 1..Len(records_buffer) :
                         records_buffer[n].symbol = L[1].symbol}}
              /\ \A i, j \in 1..Len(L) : i < j => L[i].offset < L[j].offset
     /\ \A g, h \in 1..Len(handed) : g # h => handed[g][1].symbol # handed[h][1].symbol
     /\ (pc = "flush" /\ pending = <<>>) =>
           \A n \in 1..Len(records_buffer) :
              \E g \in 1..Len(handed) : handed[g][1].symbol = records_buffer[n].symbol

\* C6 witness: a flush of a buffer in which the records of one symbol are
\* separated by a record of another symbol has handed over both groups.
C6_Witness ==
  /\ pc = "flush"
  /\ pending = <<>>
  /\ Len(records_buffer) = 3
  /\ records_buffer[1].symbol = records_buffer[3].symbol
  /\ records_buffer[1].symbol # records_buffer[2].symbol
  /\ Len(handed) = 2
  /\ Len(handed[1]) = 2

\* C7 as stated: records reach the sink (first write) in offset order,
\* whatever their symbols.
C7_PartitionOrderAtSink ==
  \A i, j \in 1..Len(sink_log) :
     (i < j /\ FirstWrite(i) /\ FirstWrite(j))
        => sink_log[i].offset < sink_log[j].offset

\* C7 amended: two records of the same symbol that are both written reach
\* the sink (first write) in offset order.
C7_SymbolOrderAtSink ==
  \A i, j \in 1..Len(sink_log) :
     (i < j /\ FirstWrite(i) /\ FirstWrite(j)
        /\ sink_log[i].symbol = sink_log[j].symbol)
        => sink_log[i].offset < sink_log[j].offset

\* C7 witness: two records of one symbol were written in offset order while
\* a record of another symbol, received between them, was written after both.
C7_Witness ==
  \E i, j, m \in 1..Len(sink_log) :
     /\ i < j /\ j < m
     /\ FirstWrite(i) /\ FirstWrite(j) /\ FirstWrite(m)
     /\ sink_log[i].symbol = sink_log[j].symbol
     /\ sink_log[m].symbol # sink_log[i].symbol
     /\ sink_log[i].offset < sink_log[m].offset
     /\ sink_log[m].offset < sink_log[j].offset

\* C8: while CLOSED fewer than failure_threshold consecutive calls have
\* failed; a failed call in CLOSED opens the breaker exactly when it is the
\* failure_threshold-th consecutive failure; a successful call restarts the
\* count (failures = 0).
C8_TripsOnThresholdFailure ==
  [][/\ (state' = "closed" => consecutive' < failure_threshold)
     /\ (pc = "op" /\ state = "closed" /\ last_exec' = "failure")
          => /\ state' \in {"closed", "open"}
             /\ (state' = "open" <=> consecutive' = failure_threshold)
     /\ (pc = "op" /\ last_exec' = "success") => failures' = 0]_vars

\* C8 witness: with failure_threshold = 2, the breaker has just opened on the
\* second consecutive failure, after an earlier success.
C8_Witness ==
  /\ failure_threshold = 2
  /\ state = "open"
  /\ last_exec = "failure"
  /\ consecutive = 2
  /\ circuit_breaker_trips = 1
  /\ sink_log # <<>>

\* C9: a call made while the breaker is OPEN and waiting is rejected: the
\* operation is not started, and the breaker's state, failures and
\* timestamps, the sink and the retry queue are left as they were.
C9_RejectedCallChangesNothing ==
  [][(CallDue /\ OpenAndWaiting)
       => /\ pc' = "flush"
          /\ last_exec' = "rejected"
          /\ UNCHANGED <<state, failures, last_failure_time,
                         last_success_time, circuit_breaker_trips, sink,
                         sink_log>>]_vars

\* C9 witness: a call was rejected one clock unit after the failure that
\* opened the breaker.
C9_Witness ==
  /\ last_exec = "rejected"
  /\ state = "open"
  /\ now = last_failure_time + 1

\* C10: a call made while the breaker is OPEN moves it to HALF_OPEN and
\* starts the operation if now >= last_failure_time + reset_timeout, and is
\* rejected with the breaker still OPEN otherwise.
C10_ResetAtTimeoutNotBefore ==
  [][(CallDue /\ state = "open")
       => IF now >= last_failure_time + reset_timeout
          THEN state' = "half_open" /\ pc' = "op"
          ELSE state' = "open" /\ pc' = "flush" /\ last_exec' = "rejected"]_vars

\* C10 witness: the operation is in flight in HALF_OPEN, entered exactly
\* reset_timeout after the last failure.
C10_Witness ==
  /\ state = "half_open"
  /\ pc = "op"
  /\ now = last_failure_time + reset_timeout

\* C11: when the operation fails while the breaker is HALF_OPEN, the breaker
\* goes back to OPEN and last_failure_time is the time of that failure.
C11_HalfOpenFailureReopens ==
  [][(pc = "op" /\ state = "half_open" /\ last_exec' = "failure")
       => /\ state' = "open"
          /\ last_failure_time' = now]_vars

\* C11 witness: the breaker has just been reopened by a failed trial call
\* that followed an earlier reopening (second OPEN -> HALF_OPEN -> OPEN cycle).
C11_Witness ==
  /\ failure_threshold = 2
  /\ state = "open"
  /\ last_exec = "failure"
  /\ failures = failure_threshold + 2
  /\ circuit_breaker_trips = 3
  /\ last_failure_time = now

\* C12: a successful call leaves failures = 0 and last_success_time at the
\* time of the success; it closes a HALF_OPEN breaker and leaves a CLOSED
\* one CLOSED.
C12_SuccessResetsAndCloses ==
  [][(pc = "op" /\ last_exec' = "success")
       => /\ failures' = 0
          /\ last_success_time' = now
          /\ state \in {"half_open", "closed"}
          /\ state' = "closed"]_vars

\* C12 witness: a trial call in HALF_OPEN has just succeeded, after the
\* breaker had opened, and closed it.
C12_Witness ==
  /\ state = "closed"
  /\ last_exec = "success"
  /\ circuit_breaker_trips >= 1
  /\ failures = 0
  /\ last_success_time = now
  /\ last_success_time > last_failure_time
  /\ last_failure_time > 0

\* C13: failures never exceeds failure_threshold + 1.
C13_FailuresBounded == failures <= failure_threshold + 1

\* C14: the poll timeout and the max batch size stay within the configured
\* bounds, from the initial state on, for every accepted configuration.
C14_ControllerWithinBounds ==
  /\ config.poll_timeout_min <= current_poll_timeout
  /\ current_poll_timeout <= config.poll_timeout_max
  /\ config.batch_size_min <= current_max_batch_size
  /\ current_max_batch_size <= config.batch_size_max

\* C15: the controller moves (poll, batch) to (min(poll * 1.5, max),
\* max(floor(batch * 0.8), min)) when the latency is above the high
\* threshold, to (max(poll * 0.8, min), min(floor(batch * 1.2), max)) when it
\* is below the low threshold, and leaves both as they are in between, the
\* thresholds included.
C15_AdaptIsTheStatedFunction ==
  [][(pc = "adapt") =>
       LET L == insert_latency
           poll == current_poll_timeout
           batch == current_max_batch_size
       IN  IF L > config.latency_threshold_high
           THEN /\ current_poll_timeout' * 10 =
                     Min(poll * 15, config.poll_timeout_max * 10)
                /\ current_max_batch_size' =
                     Max((batch * 8) \div 10, config.batch_size_min)
           ELSE IF L < config.latency_threshold_low
                THEN /\ current_poll_timeout' * 10 =
                          Max(poll * 8, config.poll_timeout_min * 10)
                     /\ current_max_batch_size' =
                          Min((batch * 12) \div 10, config.batch_size_max)
                ELSE /\ current_poll_timeout' = poll
                     /\ current_max_batch_size' = batch]_vars

\* C15 witness: the first flush measured a latency equal to the low
\* threshold and left both values where the configuration put them, although
\* a speed-up or a slow-down would have moved both.
C15_Witness ==
  /\ pc = "idle"
  /\ next_offset = 1
  /\ invalid_messages = 0
  /\ records_buffer = <<>>
  /\ insert_latency = config.latency_threshold_low
  /\ config.initial_poll_timeout = 2 * PollScale
  /\ config.initial_max_batch_size = 3
  /\ config.batch_size_min = 2
  /\ current_poll_timeout = config.initial_poll_timeout
  /\ current_max_batch_size = config.initial_max_batch_size

\* C16: accepting a record appends exactly that record to the buffer and
\* starts a flush if and only if the buffer has reached
\* current_max_batch_size or time_interval has passed since last_flush_time.
C16_FlushIffSizeOrTime ==
  [][(pc = "idle" /\ next_offset' # next_offset
        /\ records_buffer' # records_buffer)
       => /\ Len(records_buffer') = Len(records_buffer) + 1
          /\ SubSeq(records_buffer', 1, Len(records_buffer)) = records_buffer
          /\ pc' \in {"idle", "flush"}
          /\ (pc' = "flush") <=>
                \/ Len(records_buffer') >= current_max_batch_size
                \/ now - last_flush_time >= time_interval]_vars

\* C16 witness: with the time trigger not met, the record that filled the
\* buffer to exactly current_max_batch_size started a flush, the records
\* before it having been buffered without one.
C16_Witness ==
  /\ pc = "flush"
  /\ now - last_flush_time < time_interval
  /\ Len(records_buffer) = current_max_batch_size
  /\ Len(records_buffer) = 3
  /\ handed = <<>>

\* C17: once the buffer holds a record and time_interval has passed since
\* last_flush_time, the buffer is eventually flushed, whether or not another
\* message arrives.
C17_BufferedRecordEventuallyFlushed ==
  (pc = "idle" /\ records_buffer # <<>>
     /\ now - last_flush_time >= time_interval)
    ~> (records_buffer = <<>>)

\* C19: every buffered record has an upper-cased, non-empty symbol and
\* non-negative numbers, and a message that is not accepted into the buffer
\* increments invalid_messages, starts no flush and writes nothing.
C19_RejectedMessageIsCounted ==
  /\ [](\A i \in 1..Len(records_buffer) :
          LET r == records_buffer[i]
          IN  /\ r.symbol # "" /\ r.symbol = Upper(r.symbol)
              /\ r.open_price >= 0 /\ r.high_price >= 0 /\ r.low_price >= 0
              /\ r.close_price >= 0 /\ r.volume >= 0)
  /\ [][(pc = "idle" /\ next_offset' # next_offset
          /\ records_buffer' = records_buffer)
         => /\ invalid_messages' = invalid_messages + 1
            /\ pc' = "idle"
            /\ sink' = sink
            /\ sink_log' = sink_log]_vars

\* C18 as stated: the buffer never holds more than current_max_batch_size
\* records.
C18_BufferWithinBatchSize == Len(records_buffer) <= current_max_batch_size

\* C18 amended: the buffer never holds more than current_max_batch_size
\* records, or more than one record when current_max_batch_size is below 1.
C18_BufferWithinBatchSizeOrOne ==
  Len(records_buffer) <= Max(current_max_batch_size, 1)

\* C18 witness: after the controller has changed the max batch size, a flush
\* is running with the buffer filled exactly to the new size.
C18_Witness ==
  /\ pc = "flush"
  /\ current_max_batch_size # config.initial_max_batch_size
  /\ Len(records_buffer) = current_max_batch_size
  /\ Len(records_buffer) >= 2

\* C20: after an insert_batch call whose wrapped insert succeeded, the
\* breaker is CLOSED and the retry queue is empty.
C20_SuccessLeavesQueueEmpty ==
  [][(pc = "op" /\ last_exec' = "success")
       => /\ state' = "closed"
          /\ retry_queue' = <<>>]_vars

\* How the sink answers one _insert_records call: the outcome of
\* _execute_with_retry, or no connection from the pool.
WriteOutcome(script) ==
  IF script = <<"noconn">> THEN "noconn" ELSE ExecuteWithRetry(script, 0).outcome

OffsetSeq(records) == [i \in 1..Len(records) |-> records[i].offset]

IsPrefix(a, b) == Len(a) <= Len(b) /\ SubSeq(b, 1, Len(a)) = a

\* C21 as stated: within one insert_batch call with a non-empty retry
\* queue, whatever the sink answers, the queued records are written before
\* any of the new records, in queue order, and the queue is cleared only
\* after its records were written (otherwise it is left intact).
C21_QueueClearedOnlyAfterWritten ==
  (pc = "op" /\ retry_queue # <<>>) =>
    \A s1 \in SinkScripts, s2 \in SinkScripts :
      LET group == Head(pending)
          res == DoInsert(sink, retry_queue, group, s1, s2)
          queued_written == IsPrefix(OffsetSeq(retry_queue),
                                     OffsetSeq(res.written))
      IN  /\ (Offsets(res.written) \cap Offsets(group) # {}) => queued_written
          /\ res.queue \in {retry_queue, <<>>}
          /\ (res.queue = <<>>) => queued_written

\* C21, amended: within one insert_batch call with a non-empty retry queue,
\* the queued records are handed to the sink before the new records and,
\* when the sink accepts them, are committed in queue order ahead of every
\* new record; the queue is cleared exactly when the write of the queued
\* records returned without raising, which includes a write the sink
\* refused as a duplicate (nothing committed); a write that raises leaves
\* the queue intact and the new records are not attempted.
C21_QueueFirstClearedWhenWriteReturns ==
  (pc = "op" /\ retry_queue # <<>>) =>
    \A s1 \in SinkScripts, s2 \in SinkScripts :
      LET group == Head(pending)
          res == DoInsert(sink, retry_queue, group, s1, s2)
          o1 == WriteOutcome(s1)
          returned == o1 \in {"ok", "unique"}
      IN  /\ res.queue = IF returned THEN <<>> ELSE retry_queue
          /\ (o1 = "ok") =>
                IsPrefix(OffsetSeq(retry_queue), OffsetSeq(res.written))
          /\ (o1 # "ok") => Offsets(res.written) \cap Offsets(retry_queue) = {}
          /\ ~returned => res.written = <<>>

\* A call has committed the queued record again and then a record written
\* for the first time.
C21_Witness ==
  /\ pc = "flush"
  /\ last_exec = "success"
  /\ \E i \in 2..Len(sink_log) :
       /\ ~FirstWrite(i - 1)
       /\ FirstWrite(i)
       /\ \A j \in (i + 1)..Len(sink_log) : FirstWrite(j)

\* C22: when appending the arriving records to the retry queue would exceed
\* max_retry_queue_size, the arriving records are dropped and the drop
\* counter grows by their number, while the records already queued stay in
\* place. The code takes the queueing decision where execute has returned
\* (the queue is then empty); the claim places it at a call the OPEN
\* breaker rejected. Both are covered.
C22_OverflowIsDroppedAndCounted ==
  [][/\ (CallDue /\ last_exec' = "rejected"
          /\ ~QueueFits(retry_queue, Head(pending)))
         => /\ retry_queue' = retry_queue
            /\ total_dropped' = total_dropped + Len(Head(pending))
     /\ (pc = "op" /\ last_exec' = "success"
          /\ ~QueueFits(<<>>, Head(pending)))
         => /\ Offsets(retry_queue') \cap Offsets(Head(pending)) = {}
            /\ total_dropped' = total_dropped + Len(Head(pending))]_vars

\* C23: when the wrapped insert is attempted and fails, insert_batch does
\* not add the caller's records to the retry queue: after the call the queue
\* holds none of the given records and is no longer than before.
C23_FailedCallQueuesNothing ==
  [][(pc = "op" /\ last_exec' = "failure")
       => /\ Offsets(retry_queue') \cap Offsets(Head(pending)) = {}
          /\ Len(retry_queue') <= Len(retry_queue)]_vars

\* A call failed while records were queued: the queue is still there and
\* the records of the failed call are not in it.
C23_Witness ==
  /\ pc = "flush"
  /\ last_exec = "failure"
  /\ retry_queue # <<>>
  /\ handed # <<>>
  /\ Offsets(retry_queue) \cap Offsets(handed[Len(handed)]) = {}

\* C24: when the wrapped insert is attempted and fails, insert_batch
\* surfaces the failure, so the flush leaves its loop over the groups and
\* takes its failure path (the except block that awaits
\* _handle_insert_failure).
C24_FailedCallTakesFailurePath ==
  [][(pc = "op" /\ last_exec' = "failure") => pc' = "failed"]_vars

\* C25: a flush whose attempts raise is retried by _handle_insert_failure at
\* most retry_attempts times, the k-th retry (k = 0, 1, ...) after a sleep of
\* retry_delay * 2^k, so the flush call makes at most 1 + retry_attempts
\* attempts.
C25_RetriesBoundedWithBackoff ==
  /\ Len(retries) <= retry_attempts
  /\ \A k \in 0..(Len(retries) - 1) :
       retries[k + 1].slept = retry_delay * (2 ^ k)

\* C26: an error raised while a pulled batch is processed, with running
\* true, does not end the consumer loop: the loop sleeps, then tests running
\* and polls again; the loop is left for the finally block only when
\* running is false.
C26_LoopSurvivesErrors ==
  [][/\ (main_pc = "except" /\ running) => main_pc' \in {"except", "sleep"}
     /\ (main_pc = "sleep") => main_pc' \in {"sleep", "top"}
     /\ (main_pc = "top" /\ running) => main_pc' \in {"top", "poll"}
     /\ (main_pc \in {"top", "poll", "process", "except", "sleep"}
         /\ main_pc' = "final") => ~running]_vars

\* The loop polls again after it handled an error of the processing, with
\* no shutdown under way.
C26_Witness ==
  /\ main_pc = "poll"
  /\ loop_errors > 0
  /\ running
  /\ consumer = "started"
  /\ shutdown_task = "none"

\* C27: after a termination signal that arrives while a flush is in flight,
\* the consumer is not stopped and the pool is not closed before that flush
\* has made its last writer call; and no insert_batch starts or is still
\* running once the pool is closed.
C27_ShutdownDrainsTheFlush ==
  /\ [](flush_at_signal => (consumer # "stopped" /\ db_pool # "closed"))
  /\ [](inserting => db_pool # "closed")
  /\ [][(main_pc = "process" /\ groups_left > 0 /\ ~inserting
         /\ (inserting' \/ groups_left' < groups_left))
          => db_pool # "closed"]_vars

\* C28: the process exits with status 1 when the configuration is invalid
\* or startup() failed, and with status 0 otherwise.
C28_ExitCode ==
  (main_pc = "exit") =>
    exit_code = IF \/ ~ValidateConfig(config)
                   \/ startup_result \in {"consumer_failed", "sink_failed"}
                THEN 1 ELSE 0

\* C29: two flushes whose records share no symbol leave the same sink table
\* in either order, from any initial table, with a healthy sink and a CLOSED
\* breaker.
C29_DisjointFlushesCommute ==
  (commute_step = 2 /\ flush_pair[1] # <<>>
   /\ SymbolsOf(flush_pair[1]) \cap SymbolsOf(flush_pair[2]) = {})
    => sink = sink_swapped

\* Both orders are done for a first flush of two groups and a second flush
\* of another symbol, over a table that held rows before.
C29_Witness ==
  /\ commute_step = 2
  /\ Len(BatchedRecords(flush_pair[1])) = 2
  /\ flush_pair[2] # <<>>
  /\ SymbolsOf(flush_pair[1]) \cap SymbolsOf(flush_pair[2]) = {}
  /\ \A k \in CommuteKeys : sink[k] # NoRow
  /\ sink = sink_swapped

\* Five flushes were made from the defaults, each faster than
\* latency_threshold_low. (The initial timeout is a multiple of 10^5 units,
\* so initial * 0.8^5 is taken below as (initial / 10^5) * 8^5.)
FiveFastFlushes ==
  /\ Len(latency_log) = 5
  /\ \A i \in 1..5 : latency_log[i] < config.latency_threshold_low

\* C30 as stated: after five fast flushes from the defaults the poll
\* timeout is max(poll_timeout_min, initial * 0.8^5) and the max batch size
\* is min(batch_size_max, floor(initial * 1.2^5)).
C30_ClosedFormAfterFiveFastFlushes ==
  FiveFastFlushes =>
    /\ current_poll_timeout =
         Max(config.poll_timeout_min,
             (config.initial_poll_timeout \div (10 ^ 5)) * (8 ^ 5))
    /\ current_max_batch_size =
         Min(config.batch_size_max,
             (config.initial_max_batch_size * (6 ^ 5)) \div (5 ^ 5))

\* floor(b * 1.2), k times over
RECURSIVE FloorGrow(_, _)
FloorGrow(b, k) == IF k = 0 THEN b ELSE FloorGrow((b * 6) \div 5, k - 1)

\* C30, amended: after five fast flushes from the defaults the poll timeout
\* is max(poll_timeout_min, initial * 0.8^5) and the max batch size is
\* min(batch_size_max, b5), where b5 comes from the initial size by taking
\* floor(b * 1.2) five times: the floor is taken at every flush.
C30_StepwiseFloorAfterFiveFastFlushes ==
  FiveFastFlushes =>
    /\ current_poll_timeout =
         Max(config.poll_timeout_min,
             (config.initial_poll_timeout \div (10 ^ 5)) * (8 ^ 5))
    /\ current_max_batch_size =
         Min(config.batch_size_max,
             FloorGrow(config.initial_max_batch_size, 5))

\* The five fast flushes are done: half a second and 1243 records.
C30_Witness ==
  /\ FiveFastFlushes
  /\ 2 * current_poll_timeout = DefaultScale
  /\ current_max_batch_size = 1243

\* C31: whenever a flush of a non-empty buffer returns, after a try block
\* that ran through or one that raised and was retried, the buffer is empty,
\* the current_batch_size gauge is 0 and last_flush_time is the time of the
\* return.
C31_FlushReturnsCleared ==
  [][(pc # "idle" /\ pc' = "idle")
       => /\ records_buffer # <<>>
          /\ records_buffer' = <<>>
          /\ current_batch_size' = 0
          /\ last_flush_time' = now']_vars

\* A flush whose try block raised has returned, after the sleep of a retry.
C31_Witness ==
  /\ pc = "idle"
  /\ db_insert_errors > 0
  /\ records_buffer = <<>>
  /\ current_batch_size = 0
  /\ last_flush_time = now
  /\ now > 1
  /\ next_offset > 0

\* C32 as stated: when _handle_insert_failure re-enters the flush, the
\* buffer has been cleared by the finally block of the failed attempt, so
\* the retry finds an empty buffer and makes no writer call.
C32_RetryFindsEmptyBuffer ==
  [][(pc = "failed" /\ pc' = "flush")
       => (records_buffer = <<>> /\ pending' = <<>>)]_vars

\* C32, amended: _handle_insert_failure re-enters the flush before the
\* finally block of the failed attempt has run, so the retry finds the
\* buffer as the failed attempt left it, non-empty, and makes a writer call
\* for every record in it again.
C32_RetryFindsFullBuffer ==
  [][(pc = "failed" /\ pc' = "flush")
       => /\ records_buffer # <<>>
          /\ records_buffer' = records_buffer
          /\ \A i \in 1..Len(records_buffer) :
               \E g \in 1..Len(pending') :
                 \E j \in 1..Len(pending'[g]) :
                   pending'[g][j] = records_buffer[i]]_vars

\* A retried flush has handed a group to the writer again.
C32_Witness ==
  /\ pc = "flush"
  /\ retries # <<>>
  /\ handed # <<>>
  /\ records_buffer # <<>>

\* C33: messages_inserted{symbol} grows by the size of a group only if the
\* writer call for that group wrote it to the sink: a call that failed or
\* was rejected by the OPEN breaker leaves the counter as it is (and so the
\* total of the counter stays within the number of records written).
C33_InsertedCountsWrittenRecords ==
  [][(pending # <<>> /\ pending' = Tail(pending)
      /\ last_exec' \in {"rejected", "failure"})
       => messages_inserted' = messages_inserted]_vars

\* C34: circuit_breaker_trips counts the CLOSED -> OPEN transitions: a step
\* adds one to it exactly when it takes the breaker from CLOSED to OPEN;
\* rejected calls and a HALF_OPEN -> OPEN transition add nothing.
C34_TripsCountClosedToOpen ==
  [][circuit_breaker_trips' =
       circuit_breaker_trips +
         (IF state = "closed" /\ state' = "open" THEN 1 ELSE 0)]_vars

\* Deadlocks the sink answers with before anything else.
RECURSIVE LeadingDeadlocks(_)
LeadingDeadlocks(script) ==
  IF script = <<>> \/ Head(script) # "deadlock" THEN 0
  ELSE 1 + LeadingDeadlocks(Tail(script))

\* C35: _execute_with_retry issues the upsert at most 3 times; after a
\* deadlock on attempt k = 0, 1 it sleeps 100 ms * 2^k and retries; a
\* deadlock on the third attempt is surfaced; any other answer ends the call
\* at once (a unique violation as a success, another error raised); an
\* exhausted deadlock is one failure for the breaker.
C35_AtMostThreeAttemptsWithBackoff ==
  (retry_result # NoResult) =>
    LET d == LeadingDeadlocks(sink_script)
        n == Min(d + 1, 3)
    IN  /\ retry_result.attempts = n
        /\ retry_result.slept = [k \in 1..(n - 1) |-> 100 * (2 ^ (k - 1))]
        /\ retry_result.outcome =
             IF d >= 3 THEN "deadlock"
             ELSE IF d + 1 <= Len(sink_script) THEN sink_script[d + 1]
             ELSE "ok"
        /\ (last_exec = "failure") =>
             (failures = 1 /\ retry_result.outcome \in {"deadlock", "error"})
        /\ (last_exec = "success") =>
             (failures = 0 /\ retry_result.outcome \in {"ok", "unique"})

\* Three deadlocks in a row were surfaced after sleeps of 100 and 200 ms and
\* counted as one failure, with a fourth answer of the sink never asked for.
C35_Witness ==
  /\ Len(sink_script) = 4
  /\ LeadingDeadlocks(sink_script) >= 3
  /\ retry_result.attempts = 3
  /\ retry_result.slept = <<100, 200>>
  /\ last_exec = "failure"
  /\ failures = 1

\* The record written to key k that arrived last.
NewestWritten(k) ==
  LET w == WritesOf(k)
  IN  CHOOSE r \in {w[i] : i \in 1..Len(w)} :
        \A i \in 1..Len(w) : w[i].offset <= r.offset

C37_StateMatchesFailureCount ==
  failure_threshold >= 1 =>
    /\ state = "closed" => failures < failure_threshold
    /\ state \in {"open", "half_open"} => failures >= failure_threshold
    /\ pc = "idle" => state # "half_open"

\* The breaker tripped, was probed, closed again and has failed once since.
C37_Witness ==
  /\ failure_threshold >= 2
  /\ circuit_breaker_trips >= 1
  /\ state = "closed"
  /\ failures = 1
  /\ last_exec = "failure"
  /\ pc = "idle"

\* C38: every record of a pull is handed to process_message exactly once and
\* in offset order, also after an earlier record of the pull raised: the
\* consumer loop moves from one record to the next one, never past one.
C38_NoPulledRecordSkipped ==
  [][next_offset' # next_offset => next_offset' = next_offset + 1]_vars

\* C39: consumer.stop() and db_pool.close() are each invoked at most once in
\* a run and never by two tasks at a time: the finally block of main calls
\* shutdown() only when the signal task has not called it, the signal task
\* calls it only while main has not, and the two are never both inside
\* shutdown().
C39_ShutdownRunsOnce ==
  /\ [][(main_pc = "final" /\ main_pc' = "final_close")
          => shutdown_task = "none"]_vars
  /\ [][(shutdown_task = "created" /\ shutdown_task' = "stopping")
          => main_pc \notin {"final_close", "exit"}]_vars
  /\ [](~(main_pc = "final_close"
          /\ shutdown_task \in {"stopping", "closing"}))

\* C40: from a configuration with
\* 1 <= batch_size_min <= initial_max_batch_size <= batch_size_max, when
\* every flush is fast current_max_batch_size reaches batch_size_max after
\* finitely many flushes, and when every flush is slow it reaches
\* batch_size_min.
C40_AdaptationReachesBound ==
  /\ [](IsFast(insert_latency)
          => <>(current_max_batch_size = config.batch_size_max))
  /\ [](IsSlow(insert_latency)
          => <>(current_max_batch_size = config.batch_size_min))

=============================================================================
